---------------------------- MODULE Spec2Model ----------------------------
(***************************************************************************)
(* Model of the htmz secure proxy (proxy/server.js): configuration        *)
(* loading, allow-list derivation, HMAC request verification, credential  *)
(* injection, forwarding and the HTTP listener.                            *)
(*                                                                         *)
(* Strings are sequences of tokens (a token is a TLA+ string standing for  *)
(* a run of characters that the code never splits), so that prefix tests,  *)
(* URL parsing, quoting and hex decoding are computed, not assumed.        *)
(***************************************************************************)
EXTENDS Integers, Sequences, FiniteSets, TLC

(***************************************************************************)
(* JavaScript values.  Every value is a record with the same fields so     *)
(* that values of different JavaScript types can be compared.              *)
(*   t = "undef" | "null" | "bool" | "num" | "str" | "obj"                 *)
(*   an object is a sequence of entries [k, v] in insertion order          *)
(***************************************************************************)
Undef == [t |-> "undef", s |-> <<>>, b |-> FALSE, n |-> 0, o |-> <<>>]

Null == [t |-> "null", s |-> <<>>, b |-> FALSE, n |-> 0, o |-> <<>>]

Str(tokens) == [t |-> "str", s |-> tokens, b |-> FALSE, n |-> 0, o |-> <<>>]

Bool(x) == [t |-> "bool", s |-> <<>>, b |-> x, n |-> 0, o |-> <<>>]

Num(x) == [t |-> "num", s |-> <<>>, b |-> FALSE, n |-> x, o |-> <<>>]

Obj(entries) == [t |-> "obj", s |-> <<>>, b |-> FALSE, n |-> 0, o |-> entries]

Entry(key, val) == [k |-> key, v |-> val]

\* JavaScript truthiness, as used by `!x`, `x || y` and `if (x)`.
Truthy(v) ==
    CASE v.t = "str" -> v.s # <<>>
      [] v.t = "bool" -> v.b
      [] v.t = "num" -> v.n # 0
      [] v.t = "obj" -> TRUE
      [] OTHER -> FALSE

\* Index of the entry with key `key` in an object's entries, 0 when absent.
RECURSIVE IndexOfKey(_, _, _)
IndexOfKey(entries, key, i) ==
    IF i > Len(entries) THEN 0
    ELSE IF entries[i].k = key THEN i
    ELSE IndexOfKey(entries, key, i + 1)

\* obj[key] on an object value; undefined on anything else or when absent.
Get(v, key) ==
    IF v.t # "obj" THEN Undef
    ELSE LET i == IndexOfKey(v.o, key, 1)
         IN IF i = 0 THEN Undef ELSE v.o[i].v

\* Keys that are array indices (canonical decimal integers), with their
\* value: an object enumerates them first, in ascending order, whatever the
\* order in which they were created.
IndexKeys == {"0", "1", "7", "3001", "8080"}

IndexOf(key) ==
    CASE key = "0" -> 0
      [] key = "1" -> 1
      [] key = "7" -> 7
      [] key = "3001" -> 3001
      [] OTHER -> 8080

\* obj[key] = val : replaces in place (keeping the key's position); a new
\* index key goes after the smaller index keys, any other new key last.
Put(v, key, val) ==
    LET i == IndexOfKey(v.o, key, 1)
        before == Cardinality({j \in 1..Len(v.o) :
                                 /\ v.o[j].k \in IndexKeys
                                 /\ IndexOf(v.o[j].k) < IndexOf(key)})
    IN IF i # 0 THEN Obj([v.o EXCEPT ![i] = Entry(key, val)])
       ELSE IF key \in IndexKeys
       THEN Obj(SubSeq(v.o, 1, before) \o <<Entry(key, val)>>
                  \o SubSeq(v.o, before + 1, Len(v.o)))
       ELSE Obj(Append(v.o, Entry(key, val)))

\* The value reached by following `path` from `v`.
RECURSIVE GetPath(_, _)
GetPath(v, path) ==
    IF path = <<>> THEN v ELSE GetPath(Get(v, Head(path)), Tail(path))

\* `v` with the value at `path` replaced by `val` (the path exists).
RECURSIVE PutPath(_, _, _)
PutPath(v, path, val) ==
    IF path = <<>> THEN val
    ELSE Put(v, Head(path), PutPath(Get(v, Head(path)), Tail(path), val))

\* s.startsWith(p) on token strings.
StartsWith(s, p) ==
    /\ Len(p) <= Len(s)
    /\ SubSeq(s, 1, Len(p)) = p


(***************************************************************************)
(* parseTOML.  The file content is a sequence of lines, a line a sequence  *)
(* of tokens with the surrounding white space already removed (the code    *)
(* trims the line, the key and the value).                                 *)
(***************************************************************************)
Quote == "\""

\* Tokens that `!isNaN(value)` accepts, with the result of Number(value).
NumericTokens == {"0", "1", "7", "007", "3001", "8080"}

\* The numeric tokens that String(number) and JSON.stringify produce and
\* that JSON.parse accepts: no leading zeros.
DecimalTokens == {"0", "1", "7", "3001", "8080"}

NumberOf(tok) ==
    CASE tok = "0" -> 0
      [] tok = "1" -> 1
      [] tok \in {"7", "007"} -> 7
      [] tok = "3001" -> 3001
      [] tok = "8080" -> 8080
      [] OTHER -> 0

\* Index of the first token equal to `tok` in `line` from position i, 0 if none.
RECURSIVE IndexOfToken(_, _, _)
IndexOfToken(line, tok, i) ==
    IF i > Len(line) THEN 0
    ELSE IF line[i] = tok THEN i
    ELSE IndexOfToken(line, tok, i + 1)

\* sectionName.split('.') : the names between the dots.
RECURSIVE SplitDots(_)
SplitDots(tokens) ==
    LET d == IndexOfToken(tokens, ".", 1)
        name(run) == IF run = <<>> THEN "" ELSE run[1]
    IN IF d = 0 THEN <<name(tokens)>>
       ELSE <<name(SubSeq(tokens, 1, d - 1))>>
                \o SplitDots(SubSeq(tokens, d + 1, Len(tokens)))

\* Lines 72-80: coercion of the text after the first '='.
CoerceValue(value) ==
    IF value # <<>> /\ Head(value) = Quote /\ value[Len(value)] = Quote
    THEN Str(SubSeq(value, 2, Len(value) - 1))
    ELSE IF value = <<"true">> THEN Bool(TRUE)
    ELSE IF value = <<"false">> THEN Bool(FALSE)
    ELSE IF value = <<>> THEN Num(0)
    ELSE IF Len(value) = 1 /\ value[1] \in NumericTokens
         THEN Num(NumberOf(value[1]))
    ELSE Str(value)

\* Lines 50-63: walk the parts of a section header from the root, creating
\* an empty object wherever the slot is falsy.  In strict mode creating a
\* property on a primitive throws a TypeError.
RECURSIVE EnterSection(_, _, _)
EnterSection(result, path, parts) ==
    IF parts = <<>> THEN [ok |-> TRUE, result |-> result, path |-> path]
    ELSE LET cur == GetPath(result, path)
             part == Head(parts)
         IN IF cur.t # "obj"
            THEN [ok |-> FALSE, result |-> result, path |-> path]
            ELSE EnterSection(
                   IF Truthy(Get(cur, part)) THEN result
                   ELSE PutPath(result, path \o <<part>>, Obj(<<>>)),
                   path \o <<part>>, Tail(parts))

\* One iteration of the loop of lines 45-83 on parser state st.
ParseLine(st, line) ==
    IF ~st.ok \/ line = <<>> \/ Head(line) = "#" THEN st
    ELSE IF Head(line) = "[" /\ line[Len(line)] = "]"
    THEN EnterSection(st.result, <<>>,
                      SplitDots(SubSeq(line, 2, Len(line) - 1)))
    ELSE LET eq == IndexOfToken(line, "=", 1)
         IN IF eq = 0 THEN st
            ELSE LET key == IF eq = 1 THEN "" ELSE line[1]
                     val == CoerceValue(SubSeq(line, eq + 1, Len(line)))
                 IN IF GetPath(st.result, st.path).t # "obj"
                    THEN [st EXCEPT !.ok = FALSE]
                    ELSE [st EXCEPT !.result =
                             PutPath(st.result, st.path \o <<key>>, val)]

RECURSIVE ParseLines(_, _)
ParseLines(st, lines) ==
    IF lines = <<>> THEN st
    ELSE ParseLines(ParseLine(st, Head(lines)), Tail(lines))

\* parseTOML(content): ok = FALSE when the parse throws.
parseTOML(content) ==
    ParseLines([ok |-> TRUE, result |-> Obj(<<>>), path |-> <<>>], content)


(***************************************************************************)
(* URLs (the WHATWG URL class as the code uses it).  A URL string is       *)
(*   scheme "//" host-tokens [port] path-tokens ["?" k "=" v ("&" ...)]    *)
(***************************************************************************)
Schemes == {"https:", "http:"}

PortTokens == {":443", ":80", ":8080"}

PathTokens == {"/", "/v1", "/v2", "/data", "/users/octocat", "/steal"}

Delims == PortTokens \cup PathTokens \cup {"?"}

\* Number of leading tokens of s, from position i, that belong to the host.
RECURSIVE HostEnd(_, _)
HostEnd(s, i) ==
    IF i > Len(s) \/ s[i] \in Delims THEN i - 1 ELSE HostEnd(s, i + 1)

\* One "k=v" run of a query string.
ParamOf(run) ==
    LET eq == IndexOfToken(run, "=", 1)
    IN IF eq = 0
       THEN [k |-> IF run = <<>> THEN "" ELSE run[1], v |-> ""]
       ELSE [k |-> IF eq = 1 THEN "" ELSE run[1],
             v |-> IF eq = Len(run) THEN "" ELSE run[eq + 1]]

\* URLSearchParams parsing: split on '&', then on the first '='.
RECURSIVE ParseQuery(_)
ParseQuery(tokens) ==
    IF tokens = <<>> THEN <<>>
    ELSE LET a == IndexOfToken(tokens, "&", 1)
         IN IF a = 0 THEN <<ParamOf(tokens)>>
            ELSE <<ParamOf(SubSeq(tokens, 1, a - 1))>>
                     \o ParseQuery(SubSeq(tokens, a + 1, Len(tokens)))

InvalidURL ==
    [ok |-> FALSE, protocol |-> "", hostname |-> <<>>, port |-> "",
     pathname |-> <<>>, params |-> <<>>]

\* new URL(v): ok = FALSE when the constructor throws.  A non-string is
\* converted with String(v), which never yields a URL for the values here.
ParseURL(v) ==
    IF v.t # "str" \/ Len(v.s) < 3 THEN InvalidURL
    ELSE LET s == v.s
             he == HostEnd(s, 3)
             hasPort == he < Len(s) /\ s[he + 1] \in PortTokens
             ps == IF hasPort THEN he + 2 ELSE he + 1
             q == IndexOfToken(s, "?", ps)
             pe == IF q = 0 THEN Len(s) ELSE q - 1
             dflt == IF s[1] = "https:" THEN ":443" ELSE ":80"
         IN IF s[1] \notin Schemes \/ s[2] # "//" \/ he < 3 THEN InvalidURL
            ELSE [ok |-> TRUE,
                  protocol |-> s[1],
                  hostname |-> SubSeq(s, 3, he),
                  port |-> IF hasPort /\ s[he + 1] # dflt
                           THEN s[he + 1] ELSE "",
                  pathname |-> IF ps > pe THEN <<"/">> ELSE SubSeq(s, ps, pe),
                  params |-> IF q = 0 THEN <<>>
                             ELSE ParseQuery(SubSeq(s, q + 1, Len(s)))]

RECURSIVE JoinParams(_)
JoinParams(params) ==
    IF params = <<>> THEN <<>>
    ELSE <<Head(params).k, "=", Head(params).v>>
             \o (IF Len(params) = 1 THEN <<>> ELSE <<"&">>)
             \o JoinParams(Tail(params))

\* urlObj.search
Search(u) == IF u.params = <<>> THEN <<>> ELSE <<"?">> \o JoinParams(u.params)

\* `${url.protocol}//${url.hostname}`
BaseUrl(u) == <<u.protocol, "//">> \o u.hostname

\* urlObj.toString()
Href(u) ==
    BaseUrl(u) \o (IF u.port = "" THEN <<>> ELSE <<u.port>>)
               \o u.pathname \o Search(u)

\* Entries of `params` after position i whose key differs from `name`.
RECURSIVE DropKey(_, _)
DropKey(params, name) ==
    IF params = <<>> THEN <<>>
    ELSE (IF Head(params).k = name THEN <<>> ELSE <<Head(params)>>)
             \o DropKey(Tail(params), name)

\* Index of the first parameter named `name`, 0 if none.
RECURSIVE IndexOfParam(_, _, _)
IndexOfParam(params, name, i) ==
    IF i > Len(params) THEN 0
    ELSE IF params[i].k = name THEN i
    ELSE IndexOfParam(params, name, i + 1)

\* Faulty variant, for comparison: the parameter is appended (searchParams.append).
SearchParamsAppend(params, name, value) ==
    Append(params, [k |-> name, v |-> value])

\* searchParams.set(name, value): the first parameter named `name` takes the
\* value and the others of that name are removed; appended when there is none.
SearchParamsSet(params, name, value) ==
    LET i == IndexOfParam(params, name, 1)
    IN IF i = 0 THEN Append(params, [k |-> name, v |-> value])
       ELSE SubSeq(params, 1, i - 1) \o <<[k |-> name, v |-> value]>>
                \o DropKey(SubSeq(params, i + 1, Len(params)), name)

\* String(v) of a configuration scalar, as one token.
TokenOf(v) ==
    CASE v.t = "str" -> IF v.s = <<>> THEN "" ELSE v.s[1]
      [] v.t = "num" -> CHOOSE tok \in DecimalTokens : NumberOf(tok) = v.n
      [] v.t = "bool" -> IF v.b THEN "true" ELSE "false"
      [] OTHER -> "undefined"

\* String(v) of a configuration scalar, as a token string.
StringOf(v) == IF v.t = "str" THEN v.s ELSE <<TokenOf(v)>>


(***************************************************************************)
(* JSON.stringify, HMAC-SHA256 and hex.                                    *)
(***************************************************************************)
RECURSIVE Stringify(_)
RECURSIVE StringifyEntries(_)
\* JSON.stringify(v) as a token string; keys keep their insertion order and
\* a member whose value is undefined is left out.
Stringify(v) ==
    CASE v.t = "str" -> <<Quote>> \o v.s \o <<Quote>>
      [] v.t = "num" -> <<TokenOf(v)>>
      [] v.t = "bool" -> <<TokenOf(v)>>
      [] v.t = "null" -> <<"null">>
      [] v.t = "obj" ->
             <<"{">>
               \o StringifyEntries(SelectSeq(v.o, LAMBDA e : e.v.t # "undef"))
               \o <<"}">>
      [] OTHER -> <<>>

StringifyEntries(entries) ==
    IF entries = <<>> THEN <<>>
    ELSE <<Quote, Head(entries).k, Quote, ":">> \o Stringify(Head(entries).v)
             \o (IF Len(entries) = 1 THEN <<>> ELSE <<",">>)
             \o StringifyEntries(Tail(entries))

\* Number of bytes of a digest in the model (SHA-256 has 32).
DigestLen == 2

\* HMAC-SHA256(secret, text): byte i of the digest is the abstract value
\* [sec, txt, i]; two digests are equal only for the same secret and text.
Hmac(secret, text) ==
    [i \in 1..DigestLen |-> [sec |-> secret, txt |-> text, i |-> i]]

NoByte == [sec |-> "", txt |-> <<>>, i |-> 0]

\* A character position of a header value: a pair of hex digits encoding a
\* byte (lower or upper case), a lone hex digit, or a non-hex character.
HexPair(byte, up) == [kind |-> "hex", byte |-> byte, upper |-> up]

Nibble == [kind |-> "nibble", byte |-> NoByte, upper |-> FALSE]

Junk == [kind |-> "junk", byte |-> NoByte, upper |-> FALSE]

\* digest('hex'): lower-case hex digits.
HexEncode(bytes) == [i \in 1..Len(bytes) |-> HexPair(bytes[i], FALSE)]

\* Buffer.from(str, 'hex'): decodes pairs of hex digits of either case and
\* stops at the first position that is not a pair of hex digits.
RECURSIVE HexDecode(_)
HexDecode(chars) ==
    IF chars = <<>> \/ Head(chars).kind # "hex" THEN <<>>
    ELSE <<Head(chars).byte>> \o HexDecode(Tail(chars))

\* computeHMAC of the page (htmz.js): the lower-case hex HMAC-SHA256 of
\* JSON.stringify(payload).
computeHMAC(payload, secret) == HexEncode(Hmac(secret, Stringify(payload)))

\* Lines 142-155.  crypto.timingSafeEqual throws on buffers of different
\* length, which the catch turns into false.
verifyHMAC(secret, payload, signature) ==
    LET expectedSignature == HexEncode(Hmac(secret, Stringify(payload)))
        a == HexDecode(signature)
        b == HexDecode(expectedSignature)
    IN IF Len(a) # Len(b) THEN FALSE ELSE a = b

(***************************************************************************)
(* Allow-list, profile lookup and credential injection.                    *)
(***************************************************************************)
\* Object.entries(v)
Entries(v) == IF v.t = "obj" THEN v.o ELSE <<>>

\* Lines 103-117: the origins of the profiles with a parseable endpoint.
AllowListOf(cfg) ==
    LET apis == Get(cfg, "apis")
    IN IF ~Truthy(apis) THEN {}
       ELSE {BaseUrl(ParseURL(Get(Entries(apis)[i].v, "endpoint"))) :
               i \in {j \in 1..Len(Entries(apis)) :
                        /\ Truthy(Get(Entries(apis)[j].v, "endpoint"))
                        /\ ParseURL(Get(Entries(apis)[j].v, "endpoint")).ok}}

\* Faulty variant, for comparison: every parseable url is allowed.
isEndpointAllowedAnyHost(allowed, url) == ParseURL(url).ok

\* Lines 157-165.
isEndpointAllowed(allowed, url) ==
    LET urlObj == ParseURL(url)
    IN urlObj.ok /\ BaseUrl(urlObj) \in allowed

NoApi == [found |-> FALSE, name |-> "", config |-> Undef]

\* Lines 167-176: the first profile whose endpoint is a prefix of url.
RECURSIVE FirstMatch(_, _)
FirstMatch(entries, url) ==
    IF entries = <<>> THEN NoApi
    ELSE IF StartsWith(url.s, StringOf(Get(Head(entries).v, "endpoint")))
    THEN [found |-> TRUE, name |-> Head(entries).k, config |-> Head(entries).v]
    ELSE FirstMatch(Tail(entries), url)

getApiConfig(cfg, url) ==
    IF ~Truthy(Get(cfg, "apis")) THEN NoApi
    ELSE FirstMatch(Entries(Get(cfg, "apis")), url)

\* Lines 178-203: the outbound headers after credential injection.
addAuthenticationHeaders(headers, apiConfig) ==
    LET authType == Get(apiConfig, "auth_type")
    IN IF ~Truthy(apiConfig) \/ ~Truthy(authType) \/ authType = Str(<<"none">>)
       THEN headers
       ELSE IF authType = Str(<<"bearer">>) /\ Truthy(Get(apiConfig, "token"))
       THEN Put(headers, "Authorization",
                Str(<<"Bearer ">> \o StringOf(Get(apiConfig, "token"))))
       ELSE IF /\ authType = Str(<<"api_header">>)
               /\ Truthy(Get(apiConfig, "header_name"))
               /\ Truthy(Get(apiConfig, "key"))
       THEN Put(headers, TokenOf(Get(apiConfig, "header_name")),
                Get(apiConfig, "key"))
       ELSE IF /\ authType = Str(<<"basic">>)
               /\ Truthy(Get(apiConfig, "username"))
               /\ Truthy(Get(apiConfig, "password"))
       THEN Put(headers, "Authorization",
                Str(<<"Basic ", "base64(">>
                      \o StringOf(Get(apiConfig, "username")) \o <<":">>
                      \o StringOf(Get(apiConfig, "password")) \o <<")">>))
       ELSE headers

\* Lines 205-217: the outbound URL; api_key rewrites the query string.
processUrlWithAuth(url, apiConfig) ==
    LET authType == Get(apiConfig, "auth_type")
        urlObj == ParseURL(url)
    IN IF ~Truthy(apiConfig) \/ ~Truthy(authType) \/ authType = Str(<<"none">>)
       THEN url
       ELSE IF /\ authType = Str(<<"api_key">>)
               /\ Truthy(Get(apiConfig, "key_param"))
               /\ Truthy(Get(apiConfig, "key"))
       THEN Str(Href([urlObj EXCEPT !.params =
                SearchParamsSet(urlObj.params,
                                TokenOf(Get(apiConfig, "key_param")),
                                TokenOf(Get(apiConfig, "key")))]))
       ELSE url


(***************************************************************************)
(* JSON.parse on token strings.                                            *)
(***************************************************************************)
ParseFail == [ok |-> FALSE, v |-> Undef, next |-> 0]

At(t, i) == IF i >= 1 /\ i <= Len(t) THEN t[i] ELSE ""

RECURSIVE ParseValue(_, _)
RECURSIVE ParseMembers(_, _, _)
\* The JSON value starting at position i of t and the position after it.
ParseValue(t, i) ==
    LET tok == At(t, i)
        q == IndexOfToken(t, Quote, i + 1)
    IN CASE i > Len(t) -> ParseFail
         [] tok = "{" -> IF At(t, i + 1) = "}"
                         THEN [ok |-> TRUE, v |-> Obj(<<>>), next |-> i + 2]
                         ELSE ParseMembers(t, i + 1, Obj(<<>>))
         [] tok = Quote -> IF q = 0 THEN ParseFail
                           ELSE [ok |-> TRUE, v |-> Str(SubSeq(t, i + 1, q - 1)),
                                 next |-> q + 1]
         [] tok = "null" -> [ok |-> TRUE, v |-> Null, next |-> i + 1]
         [] tok = "true" -> [ok |-> TRUE, v |-> Bool(TRUE), next |-> i + 1]
         [] tok = "false" -> [ok |-> TRUE, v |-> Bool(FALSE), next |-> i + 1]
         [] tok \in DecimalTokens ->
                [ok |-> TRUE, v |-> Num(NumberOf(tok)), next |-> i + 1]
         [] OTHER -> ParseFail

\* The members of an object from position i; a repeated key keeps its first
\* position and takes the last value.
ParseMembers(t, i, acc) ==
    LET q == IndexOfToken(t, Quote, i + 1)
        key == IF q = i + 1 THEN "" ELSE At(t, i + 1)
        val == ParseValue(t, q + 2)
        obj == Put(acc, key, val.v)
    IN IF At(t, i) # Quote \/ q = 0 \/ q > i + 2 \/ At(t, q + 1) # ":"
       THEN ParseFail
       ELSE IF ~val.ok THEN ParseFail
       ELSE IF At(t, val.next) = "}"
       THEN [ok |-> TRUE, v |-> obj, next |-> val.next + 1]
       ELSE IF At(t, val.next) = ","
       THEN ParseMembers(t, val.next + 1, obj)
       ELSE ParseFail

\* Faulty variant, for comparison: a text that is not JSON is taken as an undefined value.
ParseJSONLenient(t) ==
    LET r == ParseValue(t, 1)
    IN IF r.ok /\ r.next = Len(t) + 1 THEN r
       ELSE [ok |-> TRUE, v |-> Undef, next |-> 0]

\* JSON.parse(text): ok = FALSE when it throws a SyntaxError.
ParseJSON(t) ==
    LET r == ParseValue(t, 1)
    IN IF r.ok /\ r.next = Len(t) + 1 THEN r ELSE ParseFail


(***************************************************************************)
(* Program constants (lines 21-30).                                        *)
(***************************************************************************)
HOST == "127.0.0.1"

\* Addresses that are reachable from the local machine only.
Loopback == {"127.0.0.1", "localhost", "::1"}

\* The address `server.listen(port, host)` binds: the host when it is a
\* string, every interface when the argument is not a string.
ListenAddress(host) == IF host.t = "str" THEN TokenOf(host) ELSE "::"

(***************************************************************************)
(* Inputs: configuration files, request descriptors, signatures, upstream  *)
(* answers.                                                                *)
(***************************************************************************)
Section(name) == <<"[", name, "]">>

ApiSection(name) == <<"[", "apis", ".", name, "]">>

Assign(key, tokens) == <<key, "=", Quote>> \o tokens \o <<Quote>>

GithubApi ==
    << ApiSection("github"),
       Assign("endpoint", <<"https:", "//", "api.github.com">>),
       Assign("auth_type", <<"none">>) >>

WeatherApi ==
    << ApiSection("weather"),
       Assign("endpoint", <<"https:", "//", "api.weather.com", "/v1">>),
       Assign("auth_type", <<"api_key">>),
       Assign("key_param", <<"appid">>),
       Assign("key", <<"WEATHER-KEY">>) >>

StripeApi ==
    << ApiSection("stripe"),
       Assign("endpoint", <<"https:", "//", "api.stripe.com">>),
       Assign("auth_type", <<"bearer">>),
       Assign("token", <<"STRIPE-TOKEN">>) >>

\* The stripe profile with its token written without quotes.
StripeApiUnquoted ==
    << ApiSection("stripe"),
       Assign("endpoint", <<"https:", "//", "api.stripe.com">>),
       Assign("auth_type", <<"bearer">>),
       <<"token", "=", "007">> >>

\* The stripe profile with an empty token.
StripeApiNoToken ==
    << ApiSection("stripe"),
       Assign("endpoint", <<"https:", "//", "api.stripe.com">>),
       Assign("auth_type", <<"bearer">>),
       Assign("token", <<>>) >>

\* A configuration as the README shows it.
CfgMain ==
    << <<"#", "htmz proxy">>, Section("proxy"), <<"port", "=", "3001">> >>
        \o GithubApi \o WeatherApi \o StripeApi
        \o << Section("template_vars"), Assign("DEFAULT_USER", <<"octocat">>) >>

\* The weather profile removed, the stripe token unquoted, a malformed line
\* and a bad endpoint added.
CfgAlt ==
    << Section("proxy"), Assign("host", <<"localhost">>) >>
        \o GithubApi \o StripeApiUnquoted
        \o << <<"this line is skipped">>, ApiSection("broken"),
              Assign("endpoint", <<"not a url">>) >>

\* A configuration that names a host for the listener.
CfgOpen ==
    << Section("proxy"), Assign("host", <<"0.0.0.0">>) >>
        \o GithubApi \o StripeApiNoToken

ConfigFiles == {CfgMain, CfgAlt, CfgOpen}

\* Profiles on one host: `example` for the whole host, `exampleV1` for one
\* of its paths, and `exampleAu` for a host whose name starts with the name
\* of the first.
ExampleApi ==
    << ApiSection("example"),
       Assign("endpoint", <<"https:", "//", "api.example.com">>),
       Assign("auth_type", <<"bearer">>),
       Assign("token", <<"EXAMPLE-TOKEN">>) >>

ExampleAuApi ==
    << ApiSection("exampleAu"),
       Assign("endpoint", <<"https:", "//", "api.example.com", ".au">>),
       Assign("auth_type", <<"none">>) >>

ExampleV1Api ==
    << ApiSection("exampleV1"),
       Assign("endpoint", <<"https:", "//", "api.example.com", "/v1">>),
       Assign("auth_type", <<"api_key">>),
       Assign("key_param", <<"key">>),
       Assign("key", <<"V1-KEY">>) >>

\* Three profiles, the first two with endpoints that are prefixes of the
\* same urls.
CfgOverlap == ExampleApi \o ExampleAuApi \o ExampleV1Api

\* Profiles named by numbers: `7` is declared before `1`.
CfgNumbered ==
    << ApiSection("7"),
       Assign("endpoint", <<"https:", "//", "api.example.com">>),
       Assign("auth_type", <<"bearer">>),
       Assign("token", <<"SEVEN-TOKEN">>),
       ApiSection("1"),
       Assign("endpoint", <<"https:", "//", "api.example.com", "/v1">>),
       Assign("auth_type", <<"api_key">>),
       Assign("key_param", <<"key">>),
       <<"key", "=", "007">> >>

\* A profile whose endpoint is left empty, declared before the others.
CfgBlank ==
    << ApiSection("blank"),
       Assign("endpoint", <<>>),
       Assign("auth_type", <<"bearer">>),
       Assign("token", <<"BLANK-TOKEN">>) >>
        \o GithubApi \o WeatherApi

\* The configuration files of the requests that exercise profile lookup and
\* credential injection.
ProfileFiles == {CfgMain, CfgOverlap, CfgNumbered, CfgBlank}

\* Longest configuration text, in lines, of the texts below.
MaxLines == 3

\* Lines of a configuration text: section headers, assignments of every
\* kind of value to one key, and a line that is neither.
TomlLines ==
    { Section("a"), Section("b"), <<"[", "a", ".", "b", "]">>,
      <<"b", "=", "1">>, <<"b", "=">>, Assign("b", <<"x">>),
      <<"b", "=", "true">>, <<"b", "=", "yes">>, <<"no assignment">> }

\* Every text of one to MaxLines of these lines.
TomlTexts == UNION {[1..n -> TomlLines] : n \in 1..MaxLines}

NoFile == [exists |-> FALSE, content |-> <<>>]

File(content) == [exists |-> TRUE, content |-> content]

\* Credential values of the profiles of a configuration.
CredentialsOf(cfg) ==
    LET apis == Entries(Get(cfg, "apis"))
    IN UNION {{TokenOf(Get(apis[i].v, f)) :
                 f \in {g \in {"token", "key", "username", "password"} :
                          Truthy(Get(apis[i].v, g))}} : i \in 1..Len(apis)}

AllCredentials == UNION {CredentialsOf(parseTOML(f).result) : f \in ConfigFiles}

\* Request descriptors {url, method, headers, body}.
Descriptor(url, method, headers, body) ==
    Obj(<<Entry("url", Str(url)), Entry("method", Str(<<method>>)),
          Entry("headers", Obj(headers)), Entry("body", body)>>)

UrlGithub == <<"https:", "//", "api.github.com", "/users/octocat">>

UrlWeather ==
    <<"https:", "//", "api.weather.com", "/v1", "/data", "?", "q", "=", "paris">>

UrlStripe == <<"https:", "//", "api.stripe.com", "/v1">>

UrlEvil == <<"https:", "//", "evil.com", "/steal">>

\* The caller names the key parameter itself, twice, and a parameter
\* without a value.
UrlWeatherKeyed ==
    <<"https:", "//", "api.weather.com", "/v1", "/data", "?",
      "appid", "=", "mine", "&", "q", "=", "paris", "&",
      "appid", "=", "again", "&", "flag">>

\* A path of the weather host that the profile's endpoint is no prefix of.
UrlWeatherV2 ==
    <<"https:", "//", "api.weather.com", "/v2", "?", "appid", "=", "mine">>

UrlStripePort == <<"https:", "//", "api.stripe.com", ":8080", "/v1">>

UrlStripeHttp == <<"http:", "//", "api.stripe.com", "/v1">>

UrlExample == <<"https:", "//", "api.example.com", "/v1", "/data">>

UrlExampleV2 ==
    <<"https:", "//", "api.example.com", "/v2", "?", "key", "=", "mine">>

UrlExampleAu == <<"https:", "//", "api.example.com", ".au", "/v1">>

\* The urls of the requests that exercise profile lookup and credential
\* injection.
ProfileUrls ==
    {UrlGithub, UrlWeather, UrlWeatherKeyed, UrlWeatherV2, UrlStripe,
     UrlStripePort, UrlStripeHttp, UrlExample, UrlExampleV2, UrlExampleAu,
     UrlEvil}

\* A megabyte of 'x', one token.
HugeToken == "x * 1049576"

DocGithub == Descriptor(UrlGithub, "GET", <<>>, Null)

DocWeather == Descriptor(UrlWeather, "get", <<>>, Null)

DocStripe ==
    Descriptor(UrlStripe, "POST",
               <<Entry("Authorization", Str(<<"Bearer ", "mine">>))>>,
               Str(<<"amount=1">>))

DocEvil == Descriptor(UrlEvil, "GET", <<>>, Null)

DocBadUrl == Descriptor(<<"not a url">>, "GET", <<>>, Null)

DocNoMethod == Obj(<<Entry("url", Str(UrlGithub))>>)

DocBadMethod == Descriptor(UrlGithub, "BAD METHOD", <<>>, Null)

DocHuge == Descriptor(UrlGithub, "POST", <<>>, Str(<<HugeToken>>))

\* A character that UTF-8 encodes in more than one byte.
MultiByte == "e-acute"

\* U+FFFD, which Buffer.toString() yields for an incomplete UTF-8 sequence.
Replacement == "U+FFFD"

\* A body with a character outside ASCII.
DocUnicode == Descriptor(UrlEvil, "POST", <<>>, Str(<<"caf", MultiByte>>))

\* makeProxyRequest without data: `body: undefined`.
DocNoBody == Descriptor(UrlEvil, "GET", <<>>, Undef)

Docs ==
    {DocGithub, DocWeather, DocStripe, DocEvil, DocBadUrl, DocNoMethod,
     DocBadMethod, DocHuge, DocUnicode, DocNoBody, Null}

Garbage == <<"{", "oops">>

\* Body texts that are not JSON: a broken document and the empty body.
InvalidJsonTexts == {Garbage, <<>>}

\* The texts a caller posts to the proxy route.
BodyTexts == {Stringify(d) : d \in Docs} \cup InvalidJsonTexts

\* The body the 'data' listener accumulates (lines 224-227): each chunk is
\* decoded by itself, so a multi-byte character that a chunk boundary cuts
\* (`cut`) becomes one U+FFFD for each of its two parts.
ChunksToString(text, cut) ==
    LET i == IndexOfToken(text, MultiByte, 1)
    IN IF ~cut \/ i = 0 THEN text
       ELSE SubSeq(text, 1, i - 1) \o <<Replacement, Replacement>>
                \o SubSeq(text, i + 1, Len(text))

\* Buffer.byteLength(text): every token counts for one byte but HugeToken.
RECURSIVE ByteLength(_)
ByteLength(text) ==
    IF text = <<>> THEN 0
    ELSE (IF Head(text) = HugeToken THEN 1049576 ELSE 1)
             + ByteLength(Tail(text))

\* The request size ceiling of the README and of the security tests.
SizeLimit == 1048576

\* String.prototype.toUpperCase on a method token.
ToUpperCase(tok) ==
    CASE tok = "get" -> "GET"
      [] tok = "post" -> "POST"
      [] OTHER -> tok

\* Methods that http.request accepts (an HTTP token).
IsHttpToken(tok) == tok \notin {"BAD METHOD", ""}

\* The descriptor of a posted value: its fields url, method, headers and
\* body, in that order.
Canonical(v) ==
    Obj(<<Entry("url", Get(v, "url")), Entry("method", Get(v, "method")),
          Entry("headers", Get(v, "headers")), Entry("body", Get(v, "body"))>>)

\* The ways a caller fills the X-HTMZ-Signature header.
SigKinds ==
    {"absent", "empty", "valid", "fetched", "upper", "padded", "odd", "junk",
     "truncated", "wrongsecret"}

NoSig == [present |-> FALSE, chars |-> <<>>]

Sig(chars) == [present |-> TRUE, chars |-> chars]

\* The header a caller that holds `secret` sends with the body `text`
\* ("valid": a caller that knows the server's secret; "fetched": the page,
\* which signs with the secret it got from the secret endpoint;
\* "canonical": a caller that signs the four descriptor fields in their
\* fixed order, whatever else it posts).
SignatureOf(kind, secret, text) ==
    LET good == HexEncode(Hmac(secret, text))
    IN CASE kind = "absent" -> NoSig
         [] kind = "empty" -> Sig(<<>>)
         [] kind \in {"valid", "fetched"} -> Sig(good)
         [] kind = "upper" ->
                Sig([i \in 1..Len(good) |-> HexPair(good[i].byte, TRUE)])
         [] kind = "padded" -> Sig(good \o <<Junk, Junk>>)
         [] kind = "odd" -> Sig(good \o <<Nibble>>)
         [] kind = "junk" -> Sig(<<Junk, Junk, Junk>>)
         [] kind = "truncated" -> Sig(SubSeq(good, 1, Len(good) - 1))
         [] kind = "canonical" ->
                Sig(HexEncode(Hmac(secret,
                                   Stringify(Canonical(ParseJSON(text).v)))))
         [] OTHER -> Sig(HexEncode(Hmac("guess", text)))

\* Upstream answers.
UpStatuses == {200, 404}

BodyUser == Stringify(Obj(<<Entry("login", Str(<<"octocat">>))>>))

UpBodies == {BodyUser, <<"1">>, <<"not json">>}


(***************************************************************************)
(* State.                                                                  *)
(***************************************************************************)
\* Connections the listener serves at the same time.
Conns == {"c1"}

\* Number of requests accepted in a run of the model.
MaxRequests == 2

\* Number of times the configuration file changes in a run of the model.
MaxEdits == 1

VARIABLES
    proc,             \* "loaded" | "listening" | "exited"
    config,           \* let config            (line 26)
    allowedEndpoints, \* let allowedEndpoints  (line 27)
    hmacSecret,       \* let hmacSecret        (line 28)
    requestCounter,   \* let requestCounter    (line 29)
    listenAddr,       \* address the server socket is bound to, "" if none
    configFile,       \* the file CONFIG_FILE on disk
    secretFile,       \* the file SECRET_FILE on disk
    watchPending,     \* fs.watchFile callback queued
    edits,            \* number of times the configuration file changed
    lastLoad,         \* what the most recent loadTOMLConfig() read
    clientSecret,     \* PROXY_CONFIG.secret of the page (htmz.js), "" if none
    conn,             \* per connection: the request being handled
    served,           \* number of requests accepted so far
    page,             \* the page (htmz.js): clock, secretExpiry, its calls
    trig,             \* an element trigger (event.js): options, timers, runs
    elem              \* an element (event.js): in-flight mark, its requests

vars ==
    <<proc, config, allowedEndpoints, hmacSecret, requestCounter, listenAddr,
      configFile, secretFile, watchPending, edits, lastLoad, clientSecret,
      conn, served, page, trig, elem>>

\* The variables of the proxy process and of its files.
serverVars ==
    <<proc, config, allowedEndpoints, hmacSecret, requestCounter, listenAddr,
      configFile, secretFile, watchPending, edits, lastLoad, conn, served>>

\* The variables of the browser side.
clientVars == <<page, trig, elem>>

NoResponse ==
    [status |-> 0, kind |-> "", type |-> "", error |-> <<>>,
     requestId |-> 0, originalUrl |-> Undef, resolvedUrl |-> Undef,
     method |-> "", apiName |-> "", authType |-> Undef, extStatus |-> 0,
     extType |-> "",
     requestCount |-> 0, data |-> Undef, secret |-> "", ttl |-> 0,
     tag |-> Undef]

\* {success: false, error, type} with its status.
Failure(status, type, error) ==
    [NoResponse EXCEPT !.status = status, !.kind = "failure",
                       !.type = type, !.error = error]

IdleConn ==
    [pc |-> "idle", method |-> "", path |-> "", sig |-> NoSig, sent |-> <<>>,
     body |-> <<>>,
     id |-> 0, trace |-> <<>>, responses |-> <<>>, calls |-> <<>>,
     url |-> Undef, processedUrl |-> Undef, upper |-> "", api |-> NoApi,
     upStatus |-> 0, upType |-> "", upBody |-> <<>>, upError |-> FALSE,
     closed |-> FALSE,
     arrivedUnder |-> {}]

\* The clock of the browser side runs from 1 to MaxTime ticks.
MaxTime == 4

\* Milliseconds in a tick of the page's clock: half the ttl of the secret.
TickMs == 1800000

\* The calls of makeProxyRequest the page has under way at the same time.
PageCalls == {"a", "b"}

\* PROXY_CONFIG (htmz.js lines 311-316) but its secret, which is the
\* variable clientSecret: secretExpiry (0 for null), Date.now(), and for
\* each call where it stands and the secret it holds.
PageStart ==
    [now |-> TickMs, secretExpiry |-> 0,
     pc |-> [k \in PageCalls |-> "idle"],
     held |-> [k \in PageCalls |-> ""]]

\* The modifiers of a trigger (parser.js lines 174-177), in clock ticks;
\* 0 when the modifier is not written.
TriggerOptions ==
    {[delay |-> d, throttle |-> t] : d \in {0, 1}, t \in {0, 2, 3}}
        \ {[delay |-> 0, throttle |-> 0]}

\* No timer is set.
NoTimer == 0

\* The handler of a trigger with the modifiers `options` as
\* createEventHandler returns it: the timers of debounce and throttle, the
\* flag inThrottle and the times at which the request handler ran.
TriggerStart(options) ==
    [options |-> options, now |-> 1, inThrottle |-> FALSE,
     resetDue |-> NoTimer, debounceDue |-> NoTimer, runs |-> <<>>]

\* The configuration parseAttributes gives an element with hz-get or hz-post
\* (parser.js lines 51-59): the method and the value of the attribute.
ElementConfig(method, url) == [method |-> method, url |-> url]

\* An initialised element with no request: no data-hz-request attribute, no
\* _hzController, the load handler and the observer not yet run.
ElementStart(cfg) ==
    [config |-> cfg, marked |-> FALSE, controller |-> 0, aborted |-> {},
     requests |-> {}, started |-> 0, threw |-> FALSE, outcome |-> "",
     inThrottle |-> FALSE, debouncePending |-> FALSE, loadPending |-> TRUE,
     observed |-> TRUE]

\* parseTOML(tomlContent) (line 99) for the contents the configuration file
\* has in the model, the empty content of an absent file included.
ParsedFiles ==
    [content \in ConfigFiles \cup ProfileFiles \cup TomlTexts \cup {<<>>} |->
       parseTOML(content)]


(***************************************************************************)
(* Start-up and configuration (lines 88-140, 431-466).                     *)
(***************************************************************************)
\* Faulty variant, for comparison: an absent file is taken as an empty configuration.
loadTOMLConfigNoExit(file) ==
    LET parsed == ParsedFiles[file.content]
    IN IF file.exists /\ ~parsed.ok
       THEN [exit |-> TRUE, config |-> Obj(<<>>), allowed |-> {}]
       ELSE [exit |-> FALSE, config |-> parsed.result,
             allowed |-> AllowListOf(parsed.result)]

\* loadTOMLConfig(): the new (config, allowedEndpoints), or exit(1) when the
\* file is absent or parseTOML throws.
loadTOMLConfig(file) ==
    LET parsed == ParsedFiles[file.content]
    IN IF ~file.exists \/ ~parsed.ok
       THEN [exit |-> TRUE, config |-> Obj(<<>>), allowed |-> {}]
       ELSE [exit |-> FALSE, config |-> parsed.result,
             allowed |-> AllowListOf(parsed.result)]

\* No run of loadTOMLConfig() has read a file.
NoLoad == [content |-> <<>>, same |-> FALSE]

\* The record of a run of loadTOMLConfig() on `file` after the run `last`:
\* the content it read (tomlContent, line 98) and whether the run before it
\* had read the same content.
Loaded(file, last) ==
    IF loadTOMLConfig(file).exit THEN NoLoad
    ELSE [content |-> file.content,
          same |-> last # NoLoad /\ last.content = file.content]

\* String.prototype.trim on a file content: a secret is one token, possibly
\* surrounded by white space.
Trim(content) ==
    LET body == SelectSeq(content, LAMBDA tok : tok \notin {" ", "\n"})
    IN IF body = <<>> THEN "" ELSE body[1]

\* Secrets crypto.randomBytes(64).toString('hex') may return.
FreshSecrets == {"random-1"}

\* Faulty variant, for comparison: a secret is generated at every start.
initializeSecurityAlwaysFresh(file) ==
    {[secret |-> fresh, file |-> File(<<fresh>>)] : fresh \in FreshSecrets}

\* initializeSecurity() (lines 132-140): the outcomes (hmacSecret and the
\* secret file afterwards) when the secret file is `file`.
initializeSecurity(file) ==
    IF file.exists
    THEN {[secret |-> Trim(file.content), file |-> file]}
    ELSE {[secret |-> fresh, file |-> File(<<fresh>>)] : fresh \in FreshSecrets}

\* `config.proxy?.host || HOST`
ConfigHost(cfg) ==
    LET host == Get(Get(cfg, "proxy"), "host")
    IN IF Truthy(host) THEN host ELSE Str(<<HOST>>)

Init ==
    /\ proc = "loaded"
    /\ config = Obj(<<>>)
    /\ allowedEndpoints = {}
    /\ hmacSecret = ""
    /\ requestCounter = 0
    /\ listenAddr = ""
    /\ configFile \in {File(f) : f \in ConfigFiles} \cup {NoFile}
    /\ secretFile \in {NoFile, File(<<"stored-secret", "\n">>)}
    /\ watchPending = FALSE
    /\ edits = 0
    /\ lastLoad = NoLoad
    /\ clientSecret = ""
    /\ conn = [c \in Conns |-> IdleConn]
    /\ served = 0
    /\ page = PageStart
    /\ trig = TriggerStart([delay |-> 0, throttle |-> 2])
    /\ elem = ElementStart(ElementConfig("POST", "/items"))

\* startServer(): loadTOMLConfig, initializeSecurity, server.listen.
StartServer ==
    /\ proc = "loaded"
    /\ LET ld == loadTOMLConfig(configFile)
       IN /\ config' = ld.config
          /\ allowedEndpoints' = ld.allowed
          /\ lastLoad' = Loaded(configFile, lastLoad)
          /\ IF ld.exit
             THEN /\ proc' = "exited"
                  /\ UNCHANGED <<hmacSecret, secretFile, listenAddr>>
             ELSE /\ proc' = "listening"
                  /\ listenAddr' = ListenAddress(ConfigHost(ld.config))
                  /\ \E out \in initializeSecurity(secretFile) :
                       /\ hmacSecret' = out.secret
                       /\ secretFile' = out.file
    /\ UNCHANGED <<requestCounter, configFile, watchPending, edits, conn, served,
                   clientSecret>>
    /\ UNCHANGED clientVars

\* The process ends (SIGINT, lines 468-473: server.close waits for the open
\* connections; or after exit(1)) and node is started again: the module
\* state is that of lines 26-29 again, the files are as they were left.
Restart ==
    /\ \/ proc = "exited"
       \/ proc = "listening" /\ \A c \in Conns : conn[c].pc = "idle"
    /\ proc' = "loaded"
    /\ config' = Obj(<<>>)
    /\ allowedEndpoints' = {}
    /\ hmacSecret' = ""
    /\ requestCounter' = 0
    /\ listenAddr' = ""
    /\ watchPending' = FALSE
    /\ lastLoad' = NoLoad
    /\ conn' = [c \in Conns |-> IdleConn]
    /\ UNCHANGED <<configFile, secretFile, edits, served,
                   clientSecret>>
    /\ UNCHANGED clientVars

\* The configuration file is edited or removed while the server watches it
\* (--dev, lines 456-462); without --dev the callback below never runs.
ConfigFileChange ==
    /\ proc = "listening"
    /\ edits < MaxEdits
    /\ edits' = edits + 1
    /\ \E f \in {File(g) : g \in ConfigFiles} \cup {NoFile} :
         /\ f # configFile
         /\ configFile' = f
    /\ watchPending' = TRUE
    /\ UNCHANGED <<proc, config, allowedEndpoints, hmacSecret, requestCounter,
                   listenAddr, secretFile, lastLoad, conn,
                   served,
                   clientSecret>>
    /\ UNCHANGED clientVars

\* The configuration file is written again with the content it has: its
\* modification time changes, which is what fs.watchFile reports.
ConfigFileTouch ==
    /\ proc = "listening"
    /\ edits < MaxEdits
    /\ configFile.exists
    /\ edits' = edits + 1
    /\ watchPending' = TRUE
    /\ UNCHANGED <<proc, config, allowedEndpoints, hmacSecret, requestCounter,
                   listenAddr, configFile, secretFile, lastLoad, conn, served,
                   clientSecret>>
    /\ UNCHANGED clientVars

\* Faulty variant, for comparison: the allow-list is not cleared before it is filled.
ReloadKeepsOld ==
    /\ proc = "listening"
    /\ watchPending
    /\ watchPending' = FALSE
    /\ LET ld == loadTOMLConfig(configFile)
       IN /\ config' = ld.config
          /\ allowedEndpoints' = allowedEndpoints \cup ld.allowed
          /\ lastLoad' = Loaded(configFile, lastLoad)
          /\ proc' = IF ld.exit THEN "exited" ELSE "listening"
    /\ UNCHANGED <<hmacSecret, requestCounter, listenAddr, configFile,
                   secretFile, edits, conn, served,
                   clientSecret>>
    /\ UNCHANGED clientVars

\* Faulty variant, for comparison: the callback clears config and allow-list in one turn of
\* the event loop and fills them in a later one.
ReloadTorn ==
    /\ proc = "listening"
    /\ watchPending
    /\ IF config # Obj(<<>>)
       THEN /\ config' = Obj(<<>>)
            /\ allowedEndpoints' = {}
            /\ UNCHANGED <<watchPending, lastLoad, proc>>
       ELSE /\ watchPending' = FALSE
            /\ LET ld == loadTOMLConfig(configFile)
               IN /\ config' = ld.config
                  /\ allowedEndpoints' = ld.allowed
                  /\ lastLoad' = Loaded(configFile, lastLoad)
                  /\ proc' = IF ld.exit THEN "exited" ELSE "listening"
    /\ UNCHANGED <<hmacSecret, requestCounter, listenAddr, configFile,
                   secretFile, edits, conn, served,
                   clientSecret>>
    /\ UNCHANGED clientVars

\* Faulty variant, for comparison: a file whose content was already loaded is not read again
\* after config and allow-list were cleared.
ReloadSkipsUnchanged ==
    /\ proc = "listening"
    /\ watchPending
    /\ watchPending' = FALSE
    /\ LET ld == loadTOMLConfig(configFile)
           skip == configFile.exists /\ configFile.content = lastLoad.content
       IN /\ config' = IF skip THEN Obj(<<>>) ELSE ld.config
          /\ allowedEndpoints' = IF skip THEN {} ELSE ld.allowed
          /\ lastLoad' = Loaded(configFile, lastLoad)
          /\ proc' = IF ld.exit THEN "exited" ELSE "listening"
    /\ UNCHANGED <<hmacSecret, requestCounter, listenAddr, configFile,
                   secretFile, edits, conn, served,
                   clientSecret>>
    /\ UNCHANGED clientVars

\* The fs.watchFile callback (lines 458-461): loadTOMLConfig().
Reload ==
    /\ proc = "listening"
    /\ watchPending
    /\ watchPending' = FALSE
    /\ LET ld == loadTOMLConfig(configFile)
       IN /\ config' = ld.config
          /\ allowedEndpoints' = ld.allowed
          /\ lastLoad' = Loaded(configFile, lastLoad)
          /\ proc' = IF ld.exit THEN "exited" ELSE "listening"
    /\ UNCHANGED <<hmacSecret, requestCounter, listenAddr, configFile,
                   secretFile, edits, conn, served,
                   clientSecret>>
    /\ UNCHANGED clientVars


(***************************************************************************)
(* Request handling (lines 219-429).                                       *)
(***************************************************************************)
\* Faulty variant, for comparison: the endpoint hands out a secret generated for the call.
handleSecretRequestPerCall(secret) ==
    [NoResponse EXCEPT !.status = 200, !.kind = "secret",
                       !.secret = "per-call", !.ttl = 3600]

\* handleSecretRequest (lines 384-396): {secret, ttl, timestamp}; the time
\* stamp is the wall clock and is left out.
handleSecretRequest(secret) ==
    [NoResponse EXCEPT !.status = 200, !.kind = "secret",
                       !.secret = secret, !.ttl = 3600]

\* res.writeHead(...); res.end(...) on connection record r.
Respond(r, resp) ==
    [r EXCEPT !.pc = "done", !.responses = Append(@, resp)]

\* Faulty variant, for comparison: the catch leaves parsedData without the text.
DecodeBodyDropsText(text) ==
    IF ParseJSON(text).ok THEN ParseJSON(text).v ELSE Null

\* JSON.parse of an upstream body, the text itself when that throws
\* (lines 295-300).
DecodeBody(text) ==
    IF ParseJSON(text).ok THEN ParseJSON(text).v ELSE Str(text)

\* The outbound call of lines 263-282 and 366-370.  `timeout` is the time in
\* milliseconds after which the call is given up, 0 when there is none: the
\* options carry no timeout and setTimeout is never called on the request.
OutboundCall(processedUrl, method, headers, requestBody, apiConfig) ==
    LET urlObj == ParseURL(processedUrl)
        isHttps == urlObj.protocol = "https:"
        base == Obj(<<Entry("User-Agent", Str(<<"htmz-proxy/3.0.0">>)),
                      Entry("Accept", Str(<<"application/json">>))>>)
        RECURSIVE Spread(_, _)
        Spread(acc, entries) ==
            IF entries = <<>> THEN acc
            ELSE Spread(Put(acc, Head(entries).k, Head(entries).v),
                        Tail(entries))
        upper == ToUpperCase(TokenOf(method))
    IN [hostname |-> urlObj.hostname,
        port |-> IF urlObj.port # "" THEN urlObj.port
                 ELSE IF isHttps THEN ":443" ELSE ":80",
        path |-> urlObj.pathname \o Search(urlObj),
        method |-> upper,
        headers |-> addAuthenticationHeaders(
                        Spread(base, Entries(headers)), apiConfig),
        body |-> IF Truthy(requestBody) /\ upper \in {"POST", "PUT", "PATCH"}
                 THEN IF requestBody.t = "str" THEN requestBody.s
                      ELSE Stringify(requestBody)
                 ELSE <<>>,
        tls |-> isHttps,
        timeout |-> 0]

\* The 'end' listener of the inbound request (lines 229-381) on connection
\* record r; any exception inside the try block ends in the catch (400).
HandleEnd(r, cfg, allowed, secret) ==
    LET parsed == ParseJSON(r.body)
        requestData == parsed.v
        signed == r.sig.present /\ r.sig.chars # <<>>
        url == Get(requestData, "url")
        method == Get(requestData, "method")
        headers == IF Get(requestData, "headers").t = "undef"
                   THEN Obj(<<>>) ELSE Get(requestData, "headers")
        requestBody == Get(requestData, "body")
        apiInfo == getApiConfig(cfg, url)
        processedUrl == processUrlWithAuth(url, apiInfo.config)
        caught(stages) ==
            Respond([r EXCEPT !.trace = stages],
                    Failure(400, "REQUEST_ERROR", <<"Invalid request: ">>))
    IN IF ~parsed.ok THEN caught(<<"parse">>)
       ELSE IF ~signed
       THEN Respond([r EXCEPT !.trace = <<"parse">>],
                    Failure(403, "AUTHENTICATION_ERROR",
                            <<"Invalid HMAC signature">>))
       ELSE IF ~verifyHMAC(secret, requestData, r.sig.chars)
       THEN Respond([r EXCEPT !.trace = <<"parse", "verify">>],
                    Failure(403, "AUTHENTICATION_ERROR",
                            <<"Invalid HMAC signature">>))
       ELSE IF requestData.t = "null" THEN caught(<<"parse", "verify">>)
       ELSE IF ~isEndpointAllowed(allowed, url)
       THEN Respond([r EXCEPT !.trace = <<"parse", "verify", "authorize">>],
                    Failure(403, "ENDPOINT_NOT_ALLOWED",
                            <<"Endpoint not allowed">>))
       ELSE IF method.t # "str"
       THEN caught(<<"parse", "verify", "authorize", "inject">>)
       ELSE IF ~IsHttpToken(ToUpperCase(TokenOf(method)))
       THEN caught(<<"parse", "verify", "authorize", "inject">>)
       ELSE [r EXCEPT
               !.pc = "forwarding",
               !.trace = <<"parse", "verify", "authorize", "inject",
                           "forward">>,
               !.url = url,
               !.processedUrl = processedUrl,
               !.upper = ToUpperCase(TokenOf(method)),
               !.api = apiInfo,
               !.calls = Append(@, OutboundCall(processedUrl, method, headers,
                                                requestBody, apiInfo.config))]

\* The envelope that relays the upstream status as its own.
EnvelopeRelaysStatus(r, counter) ==
    [NoResponse EXCEPT
       !.status = r.upStatus,
       !.kind = "envelope",
       !.requestId = r.id,
       !.originalUrl = r.url,
       !.resolvedUrl = r.processedUrl,
       !.method = r.upper,
       !.apiName = IF r.api.found THEN r.api.name ELSE "unknown",
       !.authType = IF Truthy(Get(r.api.config, "auth_type"))
                    THEN Get(r.api.config, "auth_type") ELSE Str(<<"none">>),
       !.extStatus = r.upStatus,
       !.extType = r.upType,
       !.requestCount = counter,
       !.data = DecodeBody(r.upBody)]

\* Faulty variant, for comparison: url and requestId are kept in one place
\* for all requests, so the envelope shows those of the latest request.
EnvelopeOfLatest(r, counter) ==
    LET latest == CHOOSE d \in DOMAIN conn :
                    \A e \in DOMAIN conn : conn[e].id <= conn[d].id
    IN [NoResponse EXCEPT
          !.status = 200,
          !.kind = "envelope",
          !.requestId = conn[latest].id,
          !.originalUrl = conn[latest].url,
          !.resolvedUrl = r.processedUrl,
          !.method = r.upper,
          !.apiName = IF r.api.found THEN r.api.name ELSE "unknown",
          !.authType = IF Truthy(Get(r.api.config, "auth_type"))
                       THEN Get(r.api.config, "auth_type")
                       ELSE Str(<<"none">>),
          !.extStatus = r.upStatus,
          !.extType = r.upType,
          !.requestCount = counter,
          !.data = DecodeBody(r.upBody)]

\* The success envelope of lines 302-352.  Its metadata has the sections
\* request, security, external, performance and proxy; no line gives it a
\* tag, so metadata.tag stays undefined.
Envelope(r, counter) ==
    [NoResponse EXCEPT
       !.status = 200,
       !.kind = "envelope",
       !.requestId = r.id,
       !.originalUrl = r.url,
       !.resolvedUrl = r.processedUrl,
       !.method = r.upper,
       !.apiName = IF r.api.found THEN r.api.name ELSE "unknown",
       !.authType = IF Truthy(Get(r.api.config, "auth_type"))
                    THEN Get(r.api.config, "auth_type") ELSE Str(<<"none">>),
       !.extStatus = r.upStatus,
       !.extType = r.upType,
       !.requestCount = counter,
       !.data = DecodeBody(r.upBody)]

\* The router that takes the proxy route under every method.
AcceptByPath(c, method, path, kind, text, cut) ==
    /\ proc = "listening"
    /\ conn[c].pc = "idle"
    /\ served < MaxRequests
    /\ served' = served + 1
    /\ LET r == [IdleConn EXCEPT !.method = method, !.path = path,
                                 !.id = served + 1,
                                 !.arrivedUnder = allowedEndpoints]
       IN IF method = "OPTIONS"
          THEN /\ conn' = [conn EXCEPT ![c] =
                    Respond(r, [NoResponse EXCEPT !.status = 200,
                                                  !.kind = "preflight"])]
               /\ UNCHANGED requestCounter
          ELSE IF path = "/htmz-proxy"
          THEN /\ conn' = [conn EXCEPT ![c] =
                    [r EXCEPT !.pc = "receiving",
                              !.sig = SignatureOf(kind,
                                         IF kind = "fetched" THEN clientSecret
                                         ELSE hmacSecret, text),
                              !.sent = text,
                              !.body = ChunksToString(text, cut)]]
               /\ requestCounter' = requestCounter + 1
          ELSE IF path = "/htmz-secret" /\ method = "GET"
          THEN /\ conn' = [conn EXCEPT ![c] =
                    Respond(r, handleSecretRequest(hmacSecret))]
               /\ UNCHANGED requestCounter
          ELSE IF path = "/htmz-vars" /\ method = "GET"
          THEN /\ conn' = [conn EXCEPT ![c] =
                    Respond(r, [NoResponse EXCEPT
                                  !.status = 200, !.kind = "vars",
                                  !.data = IF Truthy(Get(config, "template_vars"))
                                           THEN Get(config, "template_vars")
                                           ELSE Obj(<<>>)])]
               /\ UNCHANGED requestCounter
          ELSE /\ conn' = [conn EXCEPT ![c] =
                    Respond(r, [NoResponse EXCEPT !.status = 404,
                                                  !.kind = "notfound",
                                                  !.error = <<"Not found">>])]
               /\ UNCHANGED requestCounter
    \* fetchHMACSecret (htmz.js): the page keeps the secret of the answer.
    /\ clientSecret' = IF method = "GET" /\ path = "/htmz-secret"
                       THEN handleSecretRequest(hmacSecret).secret
                       ELSE clientSecret
    /\ UNCHANGED <<proc, config, allowedEndpoints, hmacSecret, listenAddr,
                   configFile, secretFile, watchPending, edits, lastLoad>>
    /\ UNCHANGED clientVars

\* http.createServer callback (lines 408-429) for a request that arrives
\* with `method` and `path`; a POST to the proxy route starts
\* handleProxyRequest (lines 219-227), which collects the chunks of the body
\* `text` the caller sends.
Accept(c, method, path, kind, text, cut) ==
    /\ proc = "listening"
    /\ conn[c].pc = "idle"
    /\ served < MaxRequests
    /\ served' = served + 1
    /\ LET r == [IdleConn EXCEPT !.method = method, !.path = path,
                                 !.id = served + 1,
                                 !.arrivedUnder = allowedEndpoints]
       IN IF method = "OPTIONS"
          THEN /\ conn' = [conn EXCEPT ![c] =
                    Respond(r, [NoResponse EXCEPT !.status = 200,
                                                  !.kind = "preflight"])]
               /\ UNCHANGED requestCounter
          ELSE IF path = "/htmz-proxy" /\ method = "POST"
          THEN /\ conn' = [conn EXCEPT ![c] =
                    [r EXCEPT !.pc = "receiving",
                              !.sig = SignatureOf(kind,
                                         IF kind = "fetched" THEN clientSecret
                                         ELSE hmacSecret, text),
                              !.sent = text,
                              !.body = ChunksToString(text, cut)]]
               /\ requestCounter' = requestCounter + 1
          ELSE IF path = "/htmz-secret" /\ method = "GET"
          THEN /\ conn' = [conn EXCEPT ![c] =
                    Respond(r, handleSecretRequest(hmacSecret))]
               /\ UNCHANGED requestCounter
          ELSE IF path = "/htmz-vars" /\ method = "GET"
          THEN /\ conn' = [conn EXCEPT ![c] =
                    Respond(r, [NoResponse EXCEPT
                                  !.status = 200, !.kind = "vars",
                                  !.data = IF Truthy(Get(config, "template_vars"))
                                           THEN Get(config, "template_vars")
                                           ELSE Obj(<<>>)])]
               /\ UNCHANGED requestCounter
          ELSE /\ conn' = [conn EXCEPT ![c] =
                    Respond(r, [NoResponse EXCEPT !.status = 404,
                                                  !.kind = "notfound",
                                                  !.error = <<"Not found">>])]
               /\ UNCHANGED requestCounter
    \* fetchHMACSecret (htmz.js): the page keeps the secret of the answer.
    /\ clientSecret' = IF method = "GET" /\ path = "/htmz-secret"
                       THEN handleSecretRequest(hmacSecret).secret
                       ELSE clientSecret
    /\ UNCHANGED <<proc, config, allowedEndpoints, hmacSecret, listenAddr,
                   configFile, secretFile, watchPending, edits, lastLoad>>
    /\ UNCHANGED clientVars

\* The inbound body has been received: the 'end' listener runs.
ReqEnd(c) ==
    /\ proc = "listening"
    /\ conn[c].pc = "receiving"
    /\ conn' = [conn EXCEPT ![c] =
                  HandleEnd(conn[c], config, allowedEndpoints, hmacSecret)]
    /\ UNCHANGED <<proc, config, allowedEndpoints, hmacSecret, requestCounter,
                   listenAddr, configFile, secretFile, watchPending, edits,
                   lastLoad, served,
                   clientSecret>>
    /\ UNCHANGED clientVars

\* The upstream answers with a status line and headers, of which `type` is
\* the content-type: the 'response' callback (lines 282-289).
UpstreamResponse(c, status, type, text) ==
    /\ proc = "listening"
    /\ conn[c].pc = "forwarding"
    /\ conn' = [conn EXCEPT ![c] =
                  [@ EXCEPT !.pc = "responding", !.upStatus = status,
                            !.upType = type, !.upBody = text]]
    /\ UNCHANGED <<proc, config, allowedEndpoints, hmacSecret, requestCounter,
                   listenAddr, configFile, secretFile, watchPending, edits,
                   lastLoad, served,
                   clientSecret>>
    /\ UNCHANGED clientVars

\* Faulty variant, for comparison: answers are written in the order of
\* arrival, so an answer waits for the calls of earlier requests.
UpstreamEndInOrder(c) ==
    /\ proc = "listening"
    /\ conn[c].pc = "responding"
    /\ \A d \in DOMAIN conn :
         conn[d].id < conn[c].id => conn[d].pc # "forwarding"
    /\ conn' = [conn EXCEPT ![c] =
                  Respond(@, Envelope(conn[c], requestCounter))]
    /\ UNCHANGED <<proc, config, allowedEndpoints, hmacSecret, requestCounter,
                   listenAddr, configFile, secretFile, watchPending, edits,
                   lastLoad, served,
                   clientSecret>>
    /\ UNCHANGED clientVars

\* The upstream body is complete: the 'end' listener (lines 291-353).
UpstreamEnd(c) ==
    /\ proc = "listening"
    /\ conn[c].pc = "responding"
    /\ conn' = [conn EXCEPT ![c] =
                  Respond(@, Envelope(conn[c], requestCounter))]
    /\ UNCHANGED <<proc, config, allowedEndpoints, hmacSecret, requestCounter,
                   listenAddr, configFile, secretFile, watchPending, edits,
                   lastLoad, served,
                   clientSecret>>
    /\ UNCHANGED clientVars

\* Faulty variant, for comparison: the 'error' listener also runs after the request was answered.
UpstreamErrorLate(c) ==
    /\ proc = "listening"
    /\ conn[c].pc \in {"forwarding", "responding", "done"}
    /\ Len(conn[c].calls) = 1
    /\ conn' = [conn EXCEPT ![c] =
                  Respond([@ EXCEPT !.upError = TRUE],
                          Failure(502, "EXTERNAL_API_ERROR",
                                  <<"External API error: ">>))]
    /\ UNCHANGED <<proc, config, allowedEndpoints, hmacSecret, requestCounter,
                   listenAddr, configFile, secretFile, watchPending, edits,
                   lastLoad, served,
                   clientSecret>>
    /\ UNCHANGED clientVars

\* Faulty variant, for comparison: the 'error' listener issues the call again.
UpstreamErrorRetries(c) ==
    /\ proc = "listening"
    /\ conn[c].pc \in {"forwarding", "responding"}
    /\ Len(conn[c].calls) = 1
    /\ conn' = [conn EXCEPT ![c] =
                  [@ EXCEPT !.pc = "forwarding", !.upError = TRUE,
                            !.calls = Append(@, conn[c].calls[1])]]
    /\ UNCHANGED <<proc, config, allowedEndpoints, hmacSecret, requestCounter,
                   listenAddr, configFile, secretFile, watchPending, edits,
                   lastLoad, served,
                   clientSecret>>
    /\ UNCHANGED clientVars

\* The outbound call fails: the 'error' listener (lines 356-364).
UpstreamError(c) ==
    /\ proc = "listening"
    /\ conn[c].pc \in {"forwarding", "responding"}
    /\ conn' = [conn EXCEPT ![c] =
                  Respond([@ EXCEPT !.upError = TRUE],
                          Failure(502, "EXTERNAL_API_ERROR",
                                  <<"External API error: ">>))]
    /\ UNCHANGED <<proc, config, allowedEndpoints, hmacSecret, requestCounter,
                   listenAddr, configFile, secretFile, watchPending, edits,
                   lastLoad, served,
                   clientSecret>>
    /\ UNCHANGED clientVars

\* The upstream closes the connection after its response headers: neither
\* 'end' nor the request's 'error' listener runs.
UpstreamAbort(c) ==
    /\ proc = "listening"
    /\ conn[c].pc = "responding"
    /\ conn' = [conn EXCEPT ![c] = [@ EXCEPT !.pc = "stalled"]]
    /\ UNCHANGED <<proc, config, allowedEndpoints, hmacSecret, requestCounter,
                   listenAddr, configFile, secretFile, watchPending, edits,
                   lastLoad, served,
                   clientSecret>>
    /\ UNCHANGED clientVars

\* The connection of an answered request is closed and can be reused.
Close(c) ==
    /\ proc = "listening"
    /\ conn[c].pc = "done"
    /\ conn' = [conn EXCEPT ![c] = IdleConn]
    /\ UNCHANGED <<proc, config, allowedEndpoints, hmacSecret, requestCounter,
                   listenAddr, configFile, secretFile, watchPending, edits,
                   lastLoad, served,
                   clientSecret>>
    /\ UNCHANGED clientVars

\* The requests the model sends: every route, and for the proxy route every
\* body text with every kind of signature.
Routes ==
    {<<"OPTIONS", "/htmz-proxy">>, <<"POST", "/htmz-proxy">>,
     <<"GET", "/htmz-proxy">>, <<"GET", "/htmz-secret">>,
     <<"GET", "/htmz-vars">>, <<"GET", "/htmz.toml">>}

Next ==
    \/ StartServer
    \/ Restart
    \/ ConfigFileChange
    \/ ConfigFileTouch
    \/ Reload
    \/ \E c \in Conns :
         /\ conn[c].pc = "idle"
         /\ \E kind \in SigKinds, text \in BodyTexts, cut \in BOOLEAN :
              Accept(c, "POST", "/htmz-proxy", kind, text, cut)
    \/ \E c \in Conns :
         /\ conn[c].pc = "idle"
         /\ \E route \in Routes \ {<<"POST", "/htmz-proxy">>} :
              Accept(c, route[1], route[2], "absent", <<>>, FALSE)
    \/ \E c \in Conns : ReqEnd(c)
    \/ \E c \in Conns :
         /\ conn[c].pc = "forwarding"
         /\ \E status \in UpStatuses, text \in UpBodies :
              UpstreamResponse(c, status, "application/json", text)
    \/ \E c \in Conns : UpstreamEnd(c)
    \/ \E c \in Conns : UpstreamError(c)
    \/ \E c \in Conns : UpstreamAbort(c)
    \/ \E c \in Conns : Close(c)

Spec == Init /\ [][Next]_vars

(***************************************************************************)
(* Profile lookup and credential injection: the listener started on one    *)
(* of the configuration files ProfileFiles receives correctly signed       *)
(* requests for the urls ProfileUrls.                                      *)
(***************************************************************************)
\* A descriptor with a field the proxy does not know.
DocTagged ==
    Obj(<<Entry("url", Str(UrlGithub)), Entry("method", Str(<<"GET">>)),
          Entry("headers", Obj(<<>>)), Entry("body", Null),
          Entry("tag", Str(<<"test_user">>))>>)

ProfileDocs ==
    {Descriptor(u, "GET", <<>>, Null) : u \in ProfileUrls} \cup {DocTagged}

\* The state of the module once loaded (lines 21-31), before startServer
\* runs; the page and the element are at rest.
ProxyLoaded ==
    /\ proc = "loaded"
    /\ config = Obj(<<>>)
    /\ allowedEndpoints = {}
    /\ hmacSecret = ""
    /\ requestCounter = 0
    /\ listenAddr = ""
    /\ watchPending = FALSE
    /\ edits = 0
    /\ lastLoad = NoLoad
    /\ clientSecret = ""
    /\ conn = [c \in Conns |-> IdleConn]
    /\ served = 0
    /\ page = PageStart
    /\ trig = TriggerStart([delay |-> 0, throttle |-> 2])
    /\ elem = ElementStart(ElementConfig("POST", "/items"))

InitProfiles ==
    /\ proc = "loaded"
    /\ config = Obj(<<>>)
    /\ allowedEndpoints = {}
    /\ hmacSecret = ""
    /\ requestCounter = 0
    /\ listenAddr = ""
    /\ configFile \in {File(f) : f \in ProfileFiles}
    /\ secretFile = File(<<"stored-secret", "\n">>)
    /\ watchPending = FALSE
    /\ edits = 0
    /\ lastLoad = NoLoad
    /\ clientSecret = ""
    /\ conn = [c \in Conns |-> IdleConn]
    /\ served = 0
    /\ page = PageStart
    /\ trig = TriggerStart([delay |-> 0, throttle |-> 2])
    /\ elem = ElementStart(ElementConfig("POST", "/items"))

NextProfiles ==
    \/ StartServer
    \/ \E c \in Conns :
         /\ conn[c].pc = "idle"
         /\ \E d \in ProfileDocs :
              Accept(c, "POST", "/htmz-proxy", "valid", Stringify(d), FALSE)
    \/ \E c \in Conns : ReqEnd(c)
    \/ \E c \in Conns :
         /\ conn[c].pc = "forwarding"
         /\ \E status \in UpStatuses, text \in UpBodies :
              UpstreamResponse(c, status, "application/json", text)
    \/ \E c \in Conns : UpstreamEnd(c)
    \/ \E c \in Conns : UpstreamError(c)
    \/ \E c \in Conns : UpstreamAbort(c)
    \/ \E c \in Conns : Close(c)

SpecProfiles == InitProfiles /\ [][NextProfiles]_vars

\* The server is started on every configuration text, and started again.
InitToml ==
    /\ ProxyLoaded
    /\ configFile \in {File(t) : t \in TomlTexts}
    /\ secretFile = File(<<"stored-secret", "\n">>)

NextToml ==
    \/ StartServer
    \/ Restart

SpecToml == InitToml /\ [][NextToml]_vars

\* Requests with the descriptor fields in another order, or with more
\* fields.
DocReordered ==
    Obj(<<Entry("method", Str(<<"GET">>)), Entry("body", Null),
          Entry("url", Str(UrlGithub)), Entry("headers", Obj(<<>>))>>)

VerifyDocs == {DocGithub, DocReordered, DocTagged, DocStripe}

\* Requests of every method for the routes, for their neighbours and for the
\* files the server keeps beside it (CONFIG_FILE line 21, SECRET_FILE line 24).
RouteMethods == {"GET", "POST", "PUT", "DELETE", "HEAD", "OPTIONS"}

RoutePaths ==
    {"/htmz-proxy", "/htmz-secret", "/htmz-vars", "/htmz.toml",
     "/.htmz-secret", "/", "/htmz-proxy/", "/HTMZ-PROXY"}

NextRoutes ==
    \/ StartServer
    \/ \E c \in Conns :
         /\ conn[c].pc = "idle"
         /\ \E method \in RouteMethods, path \in RoutePaths :
              Accept(c, method, path, "valid", Stringify(DocGithub), FALSE)
    \/ \E c \in Conns : ReqEnd(c)
    \/ \E c \in Conns :
         /\ conn[c].pc = "forwarding"
         /\ \E status \in UpStatuses, text \in UpBodies :
              UpstreamResponse(c, status, "application/json", text)
    \/ \E c \in Conns : UpstreamEnd(c)
    \/ \E c \in Conns : UpstreamError(c)
    \/ \E c \in Conns : UpstreamAbort(c)
    \/ \E c \in Conns : Close(c)

SpecRoutes == InitProfiles /\ [][NextRoutes]_vars

\* The inbound caller goes away after its request was read and before it was
\* answered. The server registers
\* 'data' and 'end' listeners on req only (lines 224-229) and nothing on
\* 'close' or 'aborted', so no code runs: the socket is closed and every
\* other part of the request is as it was.
Disconnect(c) ==
    /\ proc = "listening"
    /\ conn[c].pc \in {"forwarding", "responding", "stalled"}
    /\ ~conn[c].closed
    /\ conn' = [conn EXCEPT ![c] = [@ EXCEPT !.closed = TRUE]]
    /\ UNCHANGED <<proc, config, allowedEndpoints, hmacSecret, requestCounter,
                   listenAddr, configFile, secretFile, watchPending, edits,
                   lastLoad, served,
                   clientSecret>>
    /\ UNCHANGED clientVars

\* What an upstream can answer: any status, a JSON or a plain-text
\* content-type header, and a body that is or is not JSON text.
UpstreamStatuses == {200, 404, 500}

ContentTypes == {"application/json", "text/plain"}

UpstreamBodies == UpBodies \cup {<<"true">>}

\* The proxy with every kind of upstream answer.
NextUpstream ==
    \/ StartServer
    \/ \E c \in Conns :
         /\ conn[c].pc = "idle"
         /\ Accept(c, "POST", "/htmz-proxy", "valid", Stringify(DocGithub),
                   FALSE)
    \/ \E c \in Conns : ReqEnd(c)
    \/ \E c \in Conns :
         /\ conn[c].pc = "forwarding"
         /\ \E status \in UpstreamStatuses, type \in ContentTypes,
               text \in UpstreamBodies :
              UpstreamResponse(c, status, type, text)
    \/ \E c \in Conns : UpstreamEnd(c)
    \/ \E c \in Conns : UpstreamError(c)
    \/ \E c \in Conns : UpstreamAbort(c)
    \/ \E c \in Conns : Close(c)

SpecUpstream == InitProfiles /\ [][NextUpstream]_vars

\* The proxy with callers that may go away at any moment.
NextDisconnect ==
    \/ NextUpstream
    \/ \E c \in Conns : Disconnect(c)

SpecDisconnect == InitProfiles /\ [][NextDisconnect]_vars

NextVerify ==
    \/ StartServer
    \/ \E c \in Conns :
         /\ conn[c].pc = "idle"
         /\ \E d \in VerifyDocs, kind \in {"valid", "canonical"} :
              Accept(c, "POST", "/htmz-proxy", kind, Stringify(d), FALSE)
    \/ \E c \in Conns : ReqEnd(c)
    \/ \E c \in Conns :
         /\ conn[c].pc = "forwarding"
         /\ \E status \in UpStatuses, text \in UpBodies :
              UpstreamResponse(c, status, "application/json", text)
    \/ \E c \in Conns : UpstreamEnd(c)
    \/ \E c \in Conns : UpstreamError(c)
    \/ \E c \in Conns : UpstreamAbort(c)
    \/ \E c \in Conns : Close(c)

SpecVerify == InitProfiles /\ [][NextVerify]_vars


(***************************************************************************)
(* Two callers at a time: each request has its own handleProxyRequest      *)
(* activation, whose callbacks run one at a time in any order.             *)
(***************************************************************************)
Callers == {"A", "B"}

PairDocs == {DocGithub, DocStripe}

\* What the upstream of an outbound call answers.
UpstreamAnswer(call) ==
    IF call.hostname = <<"api.github.com">> THEN BodyUser ELSE <<"not json">>

InitPair ==
    /\ proc = "loaded"
    /\ config = Obj(<<>>)
    /\ allowedEndpoints = {}
    /\ hmacSecret = ""
    /\ requestCounter = 0
    /\ listenAddr = ""
    /\ configFile = File(CfgMain)
    /\ secretFile = File(<<"stored-secret", "\n">>)
    /\ watchPending = FALSE
    /\ edits = 0
    /\ lastLoad = NoLoad
    /\ clientSecret = ""
    /\ conn = [c \in Callers |-> IdleConn]
    /\ served = 0
    /\ page = PageStart
    /\ trig = TriggerStart([delay |-> 0, throttle |-> 2])
    /\ elem = ElementStart(ElementConfig("POST", "/items"))

NextPair ==
    \/ StartServer
    \/ \E c \in Callers :
         /\ conn[c].pc = "idle"
         /\ \E d \in PairDocs :
              Accept(c, "POST", "/htmz-proxy", "valid", Stringify(d), FALSE)
    \/ \E c \in Callers : ReqEnd(c)
    \/ \E c \in Callers :
         /\ conn[c].pc = "forwarding"
         /\ \E status \in UpStatuses :
              UpstreamResponse(c, status, "application/json",
                               UpstreamAnswer(conn[c].calls[1]))
    \/ \E c \in Callers : UpstreamEnd(c)
    \/ \E c \in Callers : UpstreamError(c)
    \/ \E c \in Callers : Close(c)

SpecPair == InitPair /\ [][NextPair]_vars


(***************************************************************************)
(* The page (htmz.js): fetchHMACSecret and makeProxyRequest.  The proxy is *)
(* seen from outside: its secret endpoint answers or fails.                *)
(***************************************************************************)
\* The secret of the proxy the page talks to.
PageServerSecret == "stored-secret"

\* The proxy process as the browser side leaves it: the module state of
\* lines 26-29, no file read.
ProxyNotStarted ==
    /\ proc = "loaded"
    /\ config = Obj(<<>>)
    /\ allowedEndpoints = {}
    /\ hmacSecret = ""
    /\ requestCounter = 0
    /\ listenAddr = ""
    /\ configFile = NoFile
    /\ secretFile = NoFile
    /\ watchPending = FALSE
    /\ edits = 0
    /\ lastLoad = NoLoad
    /\ conn = [c \in Conns |-> IdleConn]
    /\ served = 0

\* The test of line 319: a secret is cached and has not expired.
SecretCached ==
    /\ clientSecret # ""
    /\ page.secretExpiry # 0
    /\ page.now < page.secretExpiry

\* makeProxyRequest(k) starts (line 379) and runs fetchHMACSecret up to its
\* first await: the cached secret is returned (lines 319-321) or the secret
\* endpoint is fetched (line 325).
PageCall(k) ==
    /\ page.pc[k] = "idle"
    /\ page' = IF SecretCached
               THEN [page EXCEPT !.pc[k] = "signing", !.held[k] = clientSecret]
               ELSE [page EXCEPT !.pc[k] = "fetching"]
    /\ UNCHANGED <<serverVars, clientSecret, trig, elem>>

\* The secret endpoint answered call k (lines 330-337): the secret and its
\* expiry are stored; or the fetch failed (lines 338-341) and the call ends
\* in handleProxyError.
PageSecretAnswer(k, ok) ==
    /\ page.pc[k] = "fetching"
    /\ IF ok
       THEN LET data == handleSecretRequest(PageServerSecret)
            IN /\ clientSecret' = data.secret
               /\ page' = [page EXCEPT
                             !.secretExpiry = page.now + data.ttl * 1000,
                             !.pc[k] = "signing",
                             !.held[k] = data.secret]
       ELSE /\ page' = [page EXCEPT !.pc[k] = "failed"]
            /\ UNCHANGED clientSecret
    /\ UNCHANGED <<serverVars, trig, elem>>

\* computeHMAC and the fetch of the proxy route (lines 388-405).
PagePost(k) ==
    /\ page.pc[k] = "signing"
    /\ page' = [page EXCEPT !.pc[k] = "posted"]
    /\ UNCHANGED <<serverVars, clientSecret, trig, elem>>

\* The call returns (lines 406-409).
PageReturn(k) ==
    /\ page.pc[k] \in {"posted", "failed"}
    /\ page' = [page EXCEPT !.pc[k] = "idle", !.held[k] = ""]
    /\ UNCHANGED <<serverVars, clientSecret, trig, elem>>

\* Time passes.
PageTick ==
    /\ page.now < MaxTime * TickMs
    /\ page' = [page EXCEPT !.now = @ + TickMs]
    /\ UNCHANGED <<serverVars, clientSecret, trig, elem>>

NextPage ==
    \/ \E k \in PageCalls : PageCall(k)
    \/ \E k \in PageCalls, ok \in BOOLEAN : PageSecretAnswer(k, ok)
    \/ \E k \in PageCalls : PagePost(k)
    \/ \E k \in PageCalls : PageReturn(k)
    \/ PageTick

InitPage ==
    /\ ProxyNotStarted
    /\ clientSecret = ""
    /\ page = PageStart
    /\ trig = TriggerStart([delay |-> 0, throttle |-> 2])
    /\ elem = ElementStart(ElementConfig("POST", "/items"))

SpecPage == InitPage /\ [][NextPage]_vars


(***************************************************************************)
(* An element trigger (event.js createEventHandler, utils.js debounce and  *)
(* throttle).  A timer runs its callback at its due time or later.         *)
(***************************************************************************)
\* executeRequest runs.
RunHandler(t) == [t EXCEPT !.runs = Append(@, t.now)]

\* The function throttle returns (utils.js lines 57-63).
Throttled(t) ==
    IF t.inThrottle THEN t
    ELSE [RunHandler(t) EXCEPT !.inThrottle = TRUE,
                               !.resetDue = t.now + t.options.throttle]

\* The function debounce returns (utils.js lines 49-52).
Debounced(t) == [t EXCEPT !.debounceDue = t.now + t.options.delay]

\* The handler createEventHandler builds (event.js lines 55-59): debounce
\* when a delay is given, else throttle when a throttle is given.
TriggerHandler(t) ==
    IF t.options.delay # 0 THEN Debounced(t)
    ELSE IF t.options.throttle # 0 THEN Throttled(t)
    ELSE RunHandler(t)

InitTrigger ==
    /\ ProxyNotStarted
    /\ clientSecret = ""
    /\ page = PageStart
    /\ trig \in {TriggerStart(o) : o \in TriggerOptions}
    /\ elem = ElementStart(ElementConfig("POST", "/items"))

\* The event of the trigger is dispatched on the element.
TriggerEvent ==
    /\ trig' = TriggerHandler(trig)
    /\ UNCHANGED <<serverVars, clientSecret, page, elem>>

\* The timer of debounce runs its callback.
DebounceTimer ==
    /\ trig.debounceDue # NoTimer
    /\ trig.now >= trig.debounceDue
    /\ trig' = [RunHandler(trig) EXCEPT !.debounceDue = NoTimer]
    /\ UNCHANGED <<serverVars, clientSecret, page, elem>>

\* The timer of throttle runs its callback: inThrottle = false.
ThrottleTimer ==
    /\ trig.resetDue # NoTimer
    /\ trig.now >= trig.resetDue
    /\ trig' = [trig EXCEPT !.inThrottle = FALSE, !.resetDue = NoTimer]
    /\ UNCHANGED <<serverVars, clientSecret, page, elem>>

\* Time passes.
TriggerTick ==
    /\ trig.now < MaxTime
    /\ trig' = [trig EXCEPT !.now = @ + 1]
    /\ UNCHANGED <<serverVars, clientSecret, page, elem>>

NextTrigger ==
    \/ TriggerEvent
    \/ DebounceTimer
    \/ ThrottleTimer
    \/ TriggerTick

SpecTrigger == InitTrigger /\ [][NextTrigger]_vars


(***************************************************************************)
(* An element and its requests (event.js executeRequest, htmz.js           *)
(* makeRequest and the in-flight mark).                                    *)
(***************************************************************************)
MaxStarts == 3

ElementConfigs ==
    {ElementConfig(m, u) : m \in {"GET", "POST"}, u \in {"", "/items"}}

\* isRequestInFlight (htmz.js lines 612-614).
isRequestInFlight(e) == e.marked

\* markRequestStart (lines 616-619); the controller is named by its request.
markRequestStart(e, id) == [e EXCEPT !.marked = TRUE, !.controller = id]

\* markRequestEnd (lines 621-624).
markRequestEnd(e) == [e EXCEPT !.marked = FALSE, !.controller = 0]

\* processUrlTemplate throws 'Invalid URL provided' for an empty url (lines
\* 542-544) and buildUrl throws it again (lines 533-538).
buildUrlThrows(url) == url = ""

\* executeRequest (event.js lines 173-262): the mark is set, then the request
\* is prepared, buildUrl being called for GET only (line 196), and then
\* makeRequest starts; its then and catch callbacks run later.  An exception
\* of the preparation leaves the function before makeRequest is called.
executeRequest(e) ==
    LET id == e.started + 1
        m == [markRequestStart(e, id) EXCEPT !.started = id]
    IN IF e.config.method = "GET" /\ buildUrlThrows(e.config.url)
       THEN [m EXCEPT !.threw = TRUE]
       ELSE [m EXCEPT !.threw = FALSE,
                      !.requests = @ \cup {[id |-> id, phase |-> "signing"]}]

\* The handler createEventHandler builds (event.js lines 39-53), for a
\* trigger without from, target or changed: shouldIgnoreEvent is
\* isRequestInFlight (lines 123-125).
ElementHandler(e) == IF isRequestInFlight(e) THEN e ELSE executeRequest(e)

InitElement ==
    /\ ProxyNotStarted
    /\ clientSecret = ""
    /\ page = PageStart
    /\ trig = TriggerStart([delay |-> 0, throttle |-> 2])
    /\ elem \in {ElementStart(cfg) : cfg \in ElementConfigs}

\* An event of a plain trigger is dispatched on the element.
DirectEvent ==
    /\ elem.started < MaxStarts
    /\ elem' = ElementHandler(elem)
    /\ UNCHANGED <<serverVars, clientSecret, page, trig>>

\* An event of a trigger with delay: debounce sets its timer (utils.js 49-52).
DebouncedEvent ==
    /\ elem.started < MaxStarts
    /\ elem' = [elem EXCEPT !.debouncePending = TRUE]
    /\ UNCHANGED <<serverVars, clientSecret, page, trig>>

\* The timer of debounce runs the handler.
ElementDebounceTimer ==
    /\ elem.debouncePending
    /\ elem.started < MaxStarts
    /\ elem' = [ElementHandler(elem) EXCEPT !.debouncePending = FALSE]
    /\ UNCHANGED <<serverVars, clientSecret, page, trig>>

\* An event of a trigger with throttle (utils.js 57-63).
ThrottledEvent ==
    /\ elem.started < MaxStarts
    /\ elem' = IF elem.inThrottle THEN elem
               ELSE [ElementHandler(elem) EXCEPT !.inThrottle = TRUE]
    /\ UNCHANGED <<serverVars, clientSecret, page, trig>>

\* The timer of throttle: inThrottle = false.
ElementThrottleTimer ==
    /\ elem.inThrottle
    /\ elem' = [elem EXCEPT !.inThrottle = FALSE]
    /\ UNCHANGED <<serverVars, clientSecret, page, trig>>

\* The load trigger: setTimeout(handler, 0) or DOMContentLoaded, once
\* (event.js lines 80-87).
LoadEvent ==
    /\ elem.loadPending
    /\ elem.started < MaxStarts
    /\ elem' = [ElementHandler(elem) EXCEPT !.loadPending = FALSE]
    /\ UNCHANGED <<serverVars, clientSecret, page, trig>>

\* The element comes into view: the observer runs the handler and stops
\* observing (event.js lines 148-155).
IntersectEvent ==
    /\ elem.observed
    /\ elem.started < MaxStarts
    /\ elem' = [ElementHandler(elem) EXCEPT !.observed = FALSE]
    /\ UNCHANGED <<serverVars, clientSecret, page, trig>>

\* makeProxyRequest gets past `await fetchHMACSecret()` and `await
\* computeHMAC(...)` and calls fetch with the signal of its controller
\* (htmz.js lines 378-404).  With an aborted signal fetch rejects at once,
\* handleProxyError throws the error again, and the catch callback of
\* executeRequest runs markRequestEnd (event.js lines 239-242).
SecretReady(id) ==
    /\ [id |-> id, phase |-> "signing"] \in elem.requests
    /\ elem' =
         IF id \in elem.aborted
         THEN [markRequestEnd(elem) EXCEPT
                 !.requests = @ \ {[id |-> id, phase |-> "signing"]},
                 !.outcome = "aborted"]
         ELSE [elem EXCEPT
                 !.requests = (@ \ {[id |-> id, phase |-> "signing"]})
                                \cup {[id |-> id, phase |-> "sent"]}]
    /\ UNCHANGED <<serverVars, clientSecret, page, trig>>

\* fetchHMACSecret or computeHMAC fails (htmz.js lines 338-341): the error
\* reaches the catch callback of executeRequest, which runs markRequestEnd.
SecretFailed(id) ==
    /\ [id |-> id, phase |-> "signing"] \in elem.requests
    /\ elem' = [markRequestEnd(elem) EXCEPT
                  !.requests = @ \ {[id |-> id, phase |-> "signing"]},
                  !.outcome = "error"]
    /\ UNCHANGED <<serverVars, clientSecret, page, trig>>

\* The call to the proxy succeeds or fails: the then callback (event.js lines
\* 203-206) or the catch callback (lines 239-242) runs markRequestEnd.
Settle(id, outcome) ==
    /\ [id |-> id, phase |-> "sent"] \in elem.requests
    /\ elem' = [markRequestEnd(elem) EXCEPT
                  !.requests = @ \ {[id |-> id, phase |-> "sent"]},
                  !.outcome = outcome]
    /\ UNCHANGED <<serverVars, clientSecret, page, trig>>

\* beforeunload (htmz.js lines 125-132) runs abortRequest (lines 626-631) and
\* the page stays: the controller the element holds is aborted and the mark
\* removed; a fetch that has the signal rejects, and the catch callback of its
\* request runs.  A request that has not called fetch yet goes on.
BeforeUnload ==
    /\ elem.controller # 0
    /\ elem' = [markRequestEnd(elem) EXCEPT
                  !.aborted = @ \cup {elem.controller},
                  !.requests = @ \ {[id |-> elem.controller,
                                     phase |-> "sent"]},
                  !.outcome = "aborted"]
    /\ UNCHANGED <<serverVars, clientSecret, page, trig>>

NextElement ==
    \/ DirectEvent
    \/ DebouncedEvent
    \/ ElementDebounceTimer
    \/ ThrottledEvent
    \/ ElementThrottleTimer
    \/ LoadEvent
    \/ IntersectEvent
    \/ \E id \in 1..MaxStarts : SecretReady(id)
    \/ \E id \in 1..MaxStarts : SecretFailed(id)
    \/ \E id \in 1..MaxStarts, outcome \in {"ok", "error"} : Settle(id, outcome)
    \/ BeforeUnload

SpecElement == InitElement /\ [][NextElement]_vars

\* Every call to the network ends: the secret and the signature arrive or
\* fail, and fetch settles.  Events and beforeunload need not happen.
SpecElementFair ==
    /\ SpecElement
    /\ \A id \in 1..MaxStarts :
         /\ WF_vars(SecretReady(id))
         /\ WF_vars(Settle(id, "ok") \/ Settle(id, "error"))


(***************************************************************************)
(* Vocabulary of the properties.                                           *)
(***************************************************************************)
IsProxy(r) == r.method = "POST" /\ r.path = "/htmz-proxy"

\* The 'end' listener of a proxy request has run.
Handled(r) == IsProxy(r) /\ r.pc \notin {"idle", "receiving"}

\* ReqEnd(c) is the step being taken.
EndStep(c) ==
    /\ conn[c].pc = "receiving"
    /\ conn'[c].pc # "receiving"
    /\ conn'[c].id = conn[c].id

\* The descriptor a posted text denotes.
DescriptorOf(text) == ParseJSON(text).v

IsJson(text) == text \notin InvalidJsonTexts

\* The header is exactly the hex form (either case) of the HMAC of the
\* serialized descriptor under the server's secret.
GoodSignature(r) ==
    /\ r.sig.present
    /\ Len(r.sig.chars) = DigestLen
    /\ \A i \in 1..Len(r.sig.chars) :
         /\ r.sig.chars[i].kind = "hex"
         /\ r.sig.chars[i].byte =
              [sec |-> hmacSecret, txt |-> Stringify(DescriptorOf(r.body)),
               i |-> i]

\* The origin (scheme + host) of the descriptor's url is in `allowed`.
OriginAllowed(text, allowed) ==
    LET u == ParseURL(Get(DescriptorOf(text), "url"))
    IN u.ok /\ <<u.protocol, "//">> \o u.hostname \in allowed

RejectedWith(r, statuses, type) ==
    /\ r.calls = <<>>
    /\ Len(r.responses) = 1
    /\ r.responses[1].kind = "failure"
    /\ r.responses[1].status \in statuses
    /\ r.responses[1].type = type

\* C1: every proxy request with a JSON body whose signature header is
\* absent, malformed or different from the HMAC of the serialized descriptor
\* is rejected with AUTHENTICATION_ERROR (401 or 403) and makes no outbound
\* call.
C1_BadSignatureRejected ==
    \A c \in Conns :
      (Handled(conn[c]) /\ IsJson(conn[c].body) /\ ~GoodSignature(conn[c]))
        => RejectedWith(conn[c], {401, 403}, "AUTHENTICATION_ERROR")

\* C2 as stated: every parseable proxy request whose url origin is not in
\* the allow-list when the check runs gets 403 and makes no outbound call,
\* with type ENDPOINT_NOT_ALLOWED when the signature is valid.
C2_DisallowedOriginIs403 ==
    [][\A c \in Conns :
         (/\ EndStep(c)
          /\ IsJson(conn[c].body)
          /\ ~OriginAllowed(conn[c].body, allowedEndpoints))
           => /\ conn'[c].calls = <<>>
              /\ Len(conn'[c].responses) = 1
              /\ conn'[c].responses[1].status = 403
              /\ GoodSignature(conn[c])
                   => conn'[c].responses[1].type = "ENDPOINT_NOT_ALLOWED"]_vars

\* C2 amended: the same for every body that parses to a JSON value other
\* than null (a signed null is answered 400 REQUEST_ERROR).
C2_DisallowedOriginIs403_NonNull ==
    [][\A c \in Conns :
         (/\ EndStep(c)
          /\ IsJson(conn[c].body)
          /\ DescriptorOf(conn[c].body).t # "null"
          /\ ~OriginAllowed(conn[c].body, allowedEndpoints))
           => /\ conn'[c].calls = <<>>
              /\ Len(conn'[c].responses) = 1
              /\ conn'[c].responses[1].status = 403
              /\ GoodSignature(conn[c])
                   => conn'[c].responses[1].type = "ENDPOINT_NOT_ALLOWED"]_vars

\* A correctly signed request to a host outside the allow-list was answered.
C2_Witness ==
    \E c \in Conns :
      /\ Handled(conn[c])
      /\ conn[c].body = Stringify(DocEvil)
      /\ GoodSignature(conn[c])
      /\ RejectedWith(conn[c], {403}, "ENDPOINT_NOT_ALLOWED")

\* The tokens of a JavaScript value.
RECURSIVE TokensOf(_)
TokensOf(v) ==
    IF v.t = "str" THEN {v.s[i] : i \in 1..Len(v.s)}
    ELSE IF v.t = "obj"
    THEN UNION {{v.o[i].k} \cup TokensOf(v.o[i].v) : i \in 1..Len(v.o)}
    ELSE {}

\* The tokens of a response body.
ResponseTokens(resp) ==
    {resp.error[i] : i \in 1..Len(resp.error)}
        \cup TokensOf(resp.originalUrl) \cup TokensOf(resp.resolvedUrl)
        \cup TokensOf(resp.authType) \cup TokensOf(resp.data)
        \cup {resp.apiName, resp.method, resp.type}

\* C3: no credential value of any profile appears in a response body.
C3_NoCredentialInResponse ==
    \A c \in Conns :
      \A i \in 1..Len(conn[c].responses) :
        ResponseTokens(conn[c].responses[i]) \cap AllCredentials = {}

\* C4: the listener is bound to a loopback address whatever the
\* configuration says.
C4_LoopbackOnly == proc = "listening" => listenAddr \in Loopback


\* The descriptor lets the outbound call be built: an object whose url is a
\* string and whose method is a string that is an HTTP token.
WellFormed(text) ==
    LET d == DescriptorOf(text)
    IN /\ d.t = "obj"
       /\ Get(d, "url").t = "str"
       /\ Get(d, "method").t = "str"
       /\ IsHttpToken(ToUpperCase(TokenOf(Get(d, "method"))))

\* The envelope written by an UpstreamEnd step relays the upstream status
\* and the upstream body (as the text itself or as the JSON value whose
\* serialization is the text).
Relayed(c) ==
    (conn[c].pc = "responding" /\ Len(conn'[c].responses) = 1)
      => LET e == conn'[c].responses[1]
         IN e.status = 200 =>
            /\ e.kind = "envelope"
            /\ e.extStatus = conn[c].upStatus
            /\ \/ e.data = Str(conn[c].upBody)
               \/ Stringify(e.data) = conn[c].upBody

Rank(pc) ==
    CASE pc = "idle" -> 0
      [] pc = "receiving" -> 1
      [] pc = "forwarding" -> 2
      [] pc = "responding" -> 3
      [] OTHER -> 4

IsPrefix(a, b) == Len(a) <= Len(b) /\ SubSeq(b, 1, Len(a)) = a

\* C6: a request moves only forward through the pipeline, at most one
\* response is written for it, an answered request has exactly one, and its
\* status is one of 400, 401, 403, 404, 500, 502, 200.
C6_OneResponseForwardOnly ==
    [][\A c \in Conns :
         /\ Len(conn'[c].responses) <= 1
         /\ (conn'[c].pc = "done") = (Len(conn'[c].responses) = 1)
         /\ \A i \in 1..Len(conn'[c].responses) :
              conn'[c].responses[i].status
                \in {400, 401, 403, 404, 500, 502, 200}
         /\ conn'[c].id = conn[c].id
              => /\ Rank(conn'[c].pc) >= Rank(conn[c].pc)
                 /\ IsPrefix(conn[c].trace, conn'[c].trace)
                 /\ IsPrefix(conn[c].responses, conn'[c].responses)
                 /\ IsPrefix(conn[c].calls, conn'[c].calls)]_vars

\* An upstream error arrived after the upstream's response headers and the
\* request was answered once, with 502.
C6_Witness ==
    \E c \in Conns :
      /\ Handled(conn[c])
      /\ conn[c].pc = "done"
      /\ conn[c].upStatus = 200
      /\ Len(conn[c].responses) = 1
      /\ conn[c].responses[1].status = 502

\* C7: every outbound call carries an explicit timeout, so that a request
\* whose upstream never answers still ends with an upstream-error response.
C7_CallsCarryTimeout ==
    \A c \in Conns :
      \A i \in 1..Len(conn[c].calls) : conn[c].calls[i].timeout > 0

\* C8: a request with an invalid signature and a request with no signature
\* header are rejected with status 401.
C8_BadSignatureIs401 ==
    \A c \in Conns :
      (/\ Handled(conn[c])
       /\ IsJson(conn[c].body)
       /\ \/ ~conn[c].sig.present
          \/ conn[c].sig.chars = <<Junk, Junk, Junk>>)
        => /\ Len(conn[c].responses) = 1
           /\ conn[c].responses[1].status = 401

\* C9: a request whose body exceeds the size ceiling is rejected with 400
\* before any signature computation and before any outbound call.
C9_OversizeRejected ==
    \A c \in Conns :
      (Handled(conn[c]) /\ ByteLength(conn[c].body) > SizeLimit)
        => /\ RejectedWith(conn[c], {400}, "REQUEST_ERROR")
           /\ conn[c].trace = <<"parse">>

\* C10: a body that is not valid JSON is answered 400 with a REQUEST_ERROR
\* failure envelope; the signature is not verified, the allow-list is not
\* consulted and no outbound call is made.
C10_InvalidJsonIs400 ==
    \A c \in Conns :
      (Handled(conn[c]) /\ ~IsJson(conn[c].body))
        => /\ RejectedWith(conn[c], {400}, "REQUEST_ERROR")
           /\ conn[c].trace = <<"parse">>

\* A broken JSON text carrying the HMAC of that text was answered.
C10_Witness ==
    \E c \in Conns :
      /\ Handled(conn[c])
      /\ conn[c].body = Garbage
      /\ conn[c].sig = Sig(HexEncode(Hmac(hmacSecret, Garbage)))
      /\ conn[c].responses[1].status = 400

\* C11: when the outbound call fails at the transport level the caller is
\* answered once, with status 502 and a failure envelope of type
\* EXTERNAL_API_ERROR, and the call is not made again: the request has made
\* exactly one outbound call.
C11_TransportFailureIs502 ==
    \A c \in Conns :
      conn[c].upError
        => /\ Len(conn[c].calls) = 1
           /\ conn[c].pc = "done"
           /\ Len(conn[c].responses) = 1
           /\ conn[c].responses[1].kind = "failure"
           /\ conn[c].responses[1].status = 502
           /\ conn[c].responses[1].type = "EXTERNAL_API_ERROR"

\* The call of a forwarded request failed before the upstream sent anything
\* and the request was answered.
C11_Witness ==
    \E c \in Conns :
      /\ conn[c].upError
      /\ conn[c].upStatus = 0
      /\ Len(conn[c].calls) = 1
      /\ conn[c].responses[1].status = 502

\* C12: a fault while handling a request that passed body parsing, signature
\* verification and authorization (a verified descriptor for an allowed host
\* from which the outbound call cannot be built) is answered with status
\* 500, not with the 400 of malformed inbound JSON.
C12_InternalFaultIs500 ==
    [][\A c \in Conns :
         (/\ EndStep(c)
          /\ IsJson(conn[c].body)
          /\ GoodSignature(conn[c])
          /\ OriginAllowed(conn[c].body, allowedEndpoints)
          /\ ~WellFormed(conn[c].body))
           => /\ Len(conn'[c].responses) = 1
              /\ conn'[c].responses[1].status = 500]_vars

OriginGithub == <<"https:", "//", "api.github.com">>

OriginWeather == <<"https:", "//", "api.weather.com">>

OriginStripe == <<"https:", "//", "api.stripe.com">>

\* The scheme://host origins of the profiles that a configuration file
\* writes with an endpoint that is a URL, read off the file by hand.
OriginsWritten(content) ==
    CASE content = CfgMain -> {OriginGithub, OriginWeather, OriginStripe}
      [] content = CfgAlt -> {OriginGithub, OriginStripe}
      [] content = CfgOpen -> {OriginGithub, OriginStripe}
      [] OTHER -> {}

\* C13: whenever a request can be checked, the allow-list is exactly the set
\* of origins of the profiles with a parseable endpoint of the configuration
\* loaded most recently, with nothing left from earlier configurations.
C13_AllowListReflectsConfig ==
    proc = "listening"
      => /\ lastLoad # NoLoad
         /\ config = ParsedFiles[lastLoad.content].result
         /\ allowedEndpoints = OriginsWritten(lastLoad.content)

\* A request arrived under the README configuration and the configuration
\* in force now has fewer profiles: the weather origin is gone.
C13_Witness ==
    /\ proc = "listening"
    /\ lastLoad.content = CfgOpen
    /\ allowedEndpoints = {OriginGithub, OriginStripe}
    /\ \E c \in Conns :
         /\ conn[c].pc # "idle"
         /\ conn[c].arrivedUnder = OriginsWritten(CfgMain)

\* C14: a reload is one atomic step for request handling: when the 'end'
\* listener of a request runs, config and allow-list both come from one
\* configuration file (never the empty intermediate state), the allow-list
\* decision is the one of that file and the profile used for credential
\* injection is the one that file gives for the url.
C14_ReloadIsAtomic ==
    [][\A c \in Conns :
         EndStep(c)
           => LET content == lastLoad.content
                  cfg == ParsedFiles[content].result
                  url == Get(DescriptorOf(conn[c].body), "url")
              IN /\ lastLoad # NoLoad
                 /\ config = cfg
                 /\ allowedEndpoints = OriginsWritten(content)
                 /\ conn'[c].pc = "forwarding"
                      => /\ OriginAllowed(conn[c].body, OriginsWritten(content))
                         /\ conn'[c].api = getApiConfig(cfg, url)
                         /\ conn'[c].processedUrl =
                              processUrlWithAuth(url, getApiConfig(cfg, url).config)
                 /\ (/\ Len(conn'[c].responses) = 1
                     /\ conn'[c].responses[1].type = "ENDPOINT_NOT_ALLOWED")
                      => ~OriginAllowed(conn[c].body, OriginsWritten(content))]_vars

\* A correctly signed weather request arrived under the README configuration,
\* the configuration was reloaded without the weather profile while the body
\* was being received, and the request was refused under the new one.
C14_Witness ==
    \E c \in Conns :
      /\ conn[c].arrivedUnder = OriginsWritten(CfgMain)
      /\ allowedEndpoints # conn[c].arrivedUnder
      /\ conn[c].body = Stringify(DocWeather)
      /\ GoodSignature(conn[c])
      /\ RejectedWith(conn[c], {403}, "ENDPOINT_NOT_ALLOWED")

\* The watch callback is the step being taken.
ReloadStep ==
    proc = "listening" /\ watchPending /\ ~watchPending' /\ proc' # "loaded"

LoadStep == (proc = "loaded" /\ proc' # "loaded") \/ ReloadStep

\* C16: a request is accepted only by a listening process that has loaded a
\* configuration file; a load that finds the file absent terminates the
\* process, and a terminated process accepts nothing.
C16_NoServingWithoutConfig ==
    [][/\ served' # served
          => /\ proc = "listening"
             /\ listenAddr # ""
             /\ lastLoad # NoLoad
       /\ (LoadStep /\ ~configFile.exists) => proc' = "exited"
       /\ proc' = "listening" => lastLoad' # NoLoad
       /\ proc = "exited" => served' = served]_vars

\* The process was started without a configuration file and terminated
\* before it listened.
C16_Witness ==
    /\ proc = "exited"
    /\ ~configFile.exists
    /\ listenAddr = ""
    /\ served = 0

\* C17: the secret in memory is set at start-up, from the trimmed secret
\* file when there is one and otherwise generated and written to the file;
\* afterwards no request and no reload changes it or the file, so a restart
\* with the file in place loads the same secret.
C17_SecretSetOnce ==
    [][/\ (proc = "listening" /\ proc' # "loaded") => hmacSecret' = hmacSecret
       /\ secretFile.exists => secretFile' = secretFile
       /\ (proc = "loaded" /\ proc' = "listening")
            => /\ secretFile'.exists
               /\ hmacSecret' = Trim(secretFile'.content)
               /\ ~secretFile.exists => hmacSecret' \in FreshSecrets
       /\ proc' = "listening" => hmacSecret' = Trim(secretFile'.content)]_vars

\* The process has served requests of every route budgeted and reloaded its
\* configuration, and holds the secret that was in the file at start-up.
C17_Witness ==
    /\ proc = "listening"
    /\ served = MaxRequests
    /\ requestCounter >= 1
    /\ edits >= 1
    /\ ~watchPending
    /\ hmacSecret = "stored-secret"
    /\ clientSecret = "stored-secret"

\* The signature header is the lower-case hex HMAC, under the secret the
\* page holds, of the serialization of the descriptor the server parsed.
SignedByPage(r) ==
    r.sig = Sig(HexEncode(Hmac(clientSecret, Stringify(DescriptorOf(r.body)))))

\* C18: the secret endpoint answers with the secret the verifier uses (and
\* ttl 3600), so a descriptor signed with a secret obtained from it passes
\* signature verification at any later time, also after a reload.
C18_SecretEndpointAgrees ==
    \A c \in Conns :
      /\ \A i \in 1..Len(conn[c].responses) :
           conn[c].responses[i].kind = "secret"
             => /\ conn[c].responses[i].secret = hmacSecret
                /\ conn[c].responses[i].ttl = 3600
      /\ (/\ Handled(conn[c])
          /\ IsJson(conn[c].body)
          /\ clientSecret # ""
          /\ SignedByPage(conn[c]))
           => /\ Len(conn[c].trace) >= 2
              /\ \A i \in 1..Len(conn[c].responses) :
                   conn[c].responses[i].type # "AUTHENTICATION_ERROR"

\* The page fetched the secret and signed a weather request with it; the
\* request arrived under the README configuration and its 'end' listener ran
\* after a reload had removed the weather profile: the signature was
\* accepted and the origin refused.
C18_Witness ==
    \E c \in Conns :
      /\ clientSecret # ""
      /\ Handled(conn[c])
      /\ conn[c].body = Stringify(DocWeather)
      /\ conn[c].arrivedUnder = OriginsWritten(CfgMain)
      /\ allowedEndpoints # conn[c].arrivedUnder
      /\ SignedByPage(conn[c])
      /\ conn[c].trace = <<"parse", "verify", "authorize">>
      /\ RejectedWith(conn[c], {403}, "ENDPOINT_NOT_ALLOWED")

\* Descriptors that makeProxyRequest builds: url, upper-case method, headers
\* and the data (possibly undefined).
ClientDocs ==
    {DocGithub, DocStripe, DocEvil, DocBadUrl, DocHuge, DocUnicode, DocNoBody}

\* C19: for every descriptor the page can build, the string the server
\* serializes from the received body is the string the page signed, so a
\* request signed with the current secret is never refused by the signature
\* verification.
C19_SignerVerifierAgree ==
    \A c \in Conns :
      \A d \in ClientDocs :
        (/\ Handled(conn[c])
         /\ conn[c].sent = Stringify(d)
         /\ conn[c].sig = Sig(computeHMAC(d, hmacSecret)))
          => /\ Stringify(DescriptorOf(conn[c].body)) = Stringify(d)
             /\ Len(conn[c].trace) >= 2
             /\ \A i \in 1..Len(conn[c].responses) :
                  conn[c].responses[i].type # "AUTHENTICATION_ERROR"

\* The token of the stripe profile as each configuration file writes it.
TokenWritten(content) ==
    CASE content = CfgMain -> <<"STRIPE-TOKEN">>
      [] content = CfgAlt -> <<"007">>
      [] OTHER -> <<>>

\* The stripe profile (auth_type = "bearer") of a configuration file.
BearerProfile(content) ==
    Get(Get(ParsedFiles[content].result, "apis"), "stripe")

\* C20: the outbound call of a request matched to a profile with
\* auth_type = bearer and token = T carries Authorization: Bearer T with T
\* exactly as the configuration file writes it, whatever the caller sent as
\* Authorization.
C20_BearerByteForByte ==
    \A c \in Conns :
      \A content \in ConfigFiles :
        (/\ Len(conn[c].calls) = 1
         /\ conn[c].api.found
         /\ conn[c].api.name = "stripe"
         /\ conn[c].api.config = BearerProfile(content))
          => Get(conn[c].calls[1].headers, "Authorization")
               = Str(<<"Bearer ">> \o TokenWritten(content))

\* The parameters of the query string of an outbound path.
QueryOf(path) ==
    LET q == IndexOfToken(path, "?", 1)
    IN IF q = 0 THEN <<>> ELSE ParseQuery(SubSeq(path, q + 1, Len(path)))

\* The request was matched to a profile with auth_type = api_key.
ApiKeyProfile(r) ==
    r.api.found /\ Get(r.api.config, "auth_type") = Str(<<"api_key">>)

RECURSIVE DeclaredProfiles(_)
DeclaredProfiles(content) ==
    IF content = <<>> THEN <<>>
    ELSE LET line == Head(content)
             rest == DeclaredProfiles(Tail(content))
         IN IF Len(line) = 5 /\ SubSeq(line, 1, 3) = <<"[", "apis", ".">>
            THEN <<line[4]>> \o SelectSeq(rest, LAMBDA n : n # line[4])
            ELSE rest

\* The profile `name` of a configuration file.
ProfileOf(content, name) ==
    Get(Get(ParsedFiles[content].result, "apis"), name)

\* The positions, in declaration order, of the profiles whose endpoint is
\* a prefix of url.
PrefixMatches(content, url) ==
    {i \in 1..Len(DeclaredProfiles(content)) :
       StartsWith(url.s,
                  StringOf(Get(ProfileOf(content, DeclaredProfiles(content)[i]),
                               "endpoint")))}

\* C22: the profile used for a forwarded request is the first one, in the
\* order of the configuration file, whose endpoint is a prefix of the url,
\* and none when no endpoint is a prefix.
C22_FirstDeclaredWins ==
    \A c \in Conns :
      Len(conn[c].calls) = 1
        => LET names == DeclaredProfiles(lastLoad.content)
               found == PrefixMatches(lastLoad.content, conn[c].url)
           IN IF found = {} THEN ~conn[c].api.found
              ELSE LET first == CHOOSE i \in found : \A j \in found : i <= j
                   IN /\ conn[c].api.found
                      /\ conn[c].api.name = names[first]
                      /\ conn[c].api.config =
                           ProfileOf(lastLoad.content, names[first])

\* Call k of makeProxyRequest starts in this step.
CallStarts(k) == page.pc[k] = "idle" /\ page'.pc[k] # "idle"

\* C23: the page fetches the secret at most once per ttl window: a call that
\* starts while a cached secret is unexpired fetches nothing, a call that
\* starts with no unexpired secret and no fetch under way fetches, and no
\* call starts a fetch of the secret endpoint while another call's fetch is
\* under way.
C23_OneFetchPerTtl ==
    [][\A k \in PageCalls :
         CallStarts(k)
           => /\ SecretCached => page'.pc[k] # "fetching"
              /\ (/\ ~SecretCached
                  /\ \A j \in PageCalls : page.pc[j] # "fetching")
                   => page'.pc[k] = "fetching"
              /\ page'.pc[k] = "fetching"
                   => \A j \in PageCalls : page.pc[j] # "fetching"]_vars

\* C23 for one call at a time: a call that starts while a cached secret is
\* unexpired fetches nothing, and a call that starts with none fetches.
C23_CacheHonoured ==
    [][\A k \in PageCalls :
         CallStarts(k)
           => (SecretCached <=> page'.pc[k] # "fetching")]_vars

\* C27: the request handler of a trigger with throttle:N runs at most once
\* in any window of N: two runs are at least N apart.
C27_ThrottleWindow ==
    trig.options.throttle # 0
      => \A i, j \in 1..Len(trig.runs) :
           i < j => trig.runs[j] - trig.runs[i] >= trig.options.throttle

\* C27 for triggers with no delay modifier.
C27_ThrottleAlone ==
    (trig.options.throttle # 0 /\ trig.options.delay = 0)
      => \A i, j \in 1..Len(trig.runs) :
           i < j => trig.runs[j] - trig.runs[i] >= trig.options.throttle

Stages == <<"parse", "verify", "authorize", "inject", "forward">>

Ran(r, stage) == \E i \in 1..Len(r.trace) : r.trace[i] = stage

\* The header passes the test of lines 232-233 and verifyHMAC.
Verified(r) ==
    /\ r.sig.present
    /\ r.sig.chars # <<>>
    /\ verifyHMAC(hmacSecret, DescriptorOf(r.body), r.sig.chars)

\* The posted text is a descriptor with a url.
HasUrl(text) == Get(DescriptorOf(text), "url").t = "str"

\* C28: the checks of a proxy request run in the order parsing, signature,
\* allow-list, credential injection, forwarding; a request with an invalid
\* signature and a disallowed url is answered AUTHENTICATION_ERROR, and
\* injection never runs for a request that failed either check.
C28_FixedOrder ==
    [][\A c \in Conns :
         (EndStep(c) /\ IsProxy(conn[c]))
           => /\ IsPrefix(conn'[c].trace, Stages)
              /\ (/\ IsJson(conn[c].body)
                  /\ HasUrl(conn[c].body)
                  /\ ~GoodSignature(conn[c])
                  /\ ~OriginAllowed(conn[c].body, allowedEndpoints))
                   => RejectedWith(conn'[c], {401, 403},
                                   "AUTHENTICATION_ERROR")
              /\ (/\ IsJson(conn[c].body)
                  /\ \/ ~GoodSignature(conn[c])
                     \/ ~OriginAllowed(conn[c].body, allowedEndpoints))
                   => ~Ran(conn'[c], "inject")]_vars

\* C28 with "invalid" read as "refused by verifyHMAC".
C28_OrderOfChecks ==
    [][\A c \in Conns :
         (EndStep(c) /\ IsProxy(conn[c]))
           => /\ IsPrefix(conn'[c].trace, Stages)
              /\ (/\ IsJson(conn[c].body)
                  /\ HasUrl(conn[c].body)
                  /\ ~Verified(conn[c])
                  /\ ~OriginAllowed(conn[c].body, allowedEndpoints))
                   => RejectedWith(conn'[c], {401, 403},
                                   "AUTHENTICATION_ERROR")
              /\ (/\ IsJson(conn[c].body)
                  /\ \/ ~Verified(conn[c])
                     \/ ~OriginAllowed(conn[c].body, allowedEndpoints))
                   => ~Ran(conn'[c], "inject")]_vars

\* The profile used for request r puts a credential on the outbound call:
\* into its headers or into its query string.
Injects(r) ==
    \/ addAuthenticationHeaders(Obj(<<>>), r.api.config) # Obj(<<>>)
    \/ processUrlWithAuth(r.url, r.api.config) # r.url

\* C29: a credential of a profile P goes only into outbound calls whose
\* origin (scheme + host) is the origin of P's endpoint.
C29_CredentialsStayOnOrigin ==
    \A c \in Conns :
      (/\ Handled(conn[c])
       /\ conn[c].calls # <<>>
       /\ conn[c].api.found
       /\ Injects(conn[c]))
        => LET endpoint == ParseURL(Get(conn[c].api.config, "endpoint"))
           IN /\ endpoint.ok
              /\ BaseUrl(endpoint) = BaseUrl(ParseURL(conn[c].url))

\* The names of the headers of an outbound call.
HeaderNames(call) == {call.headers.o[i].k : i \in 1..Len(call.headers.o)}

\* C30: whether a correctly signed request is forwarded depends only on the
\* scheme and host name of its url: it is forwarded when that origin is in
\* the allow-list, whatever its port and path, and refused with
\* ENDPOINT_NOT_ALLOWED otherwise; when no profile's endpoint is a prefix of
\* the url the call goes to the url as given, with no credential.
C30_OriginDecides ==
    [][\A c \in Conns :
         (EndStep(c) /\ IsProxy(conn[c]) /\ GoodSignature(conn[c]))
           => LET url == Get(DescriptorOf(conn[c].body), "url")
                  u == ParseURL(url)
                  allowed == OriginAllowed(conn[c].body, allowedEndpoints)
              IN /\ allowed <=> Len(conn'[c].calls) = 1
                 /\ ~allowed
                      => RejectedWith(conn'[c], {403}, "ENDPOINT_NOT_ALLOWED")
                 /\ (allowed /\ PrefixMatches(lastLoad.content, url) = {})
                      => /\ HeaderNames(conn'[c].calls[1])
                              = {"User-Agent", "Accept"}
                         /\ conn'[c].calls[1].hostname = u.hostname
                         /\ conn'[c].calls[1].path
                              = SubSeq(url.s,
                                       Len(Href([u EXCEPT !.pathname = <<>>,
                                                          !.params = <<>>]))
                                         + 1,
                                       Len(url.s))
                 /\ (allowed /\ u.port # "")
                      => conn'[c].calls[1].port = u.port]_vars

\* A request for /v2 of the weather host, whose profile's endpoint ends in
\* /v1, was forwarded as given, the caller's own appid included.
C30_Witness ==
    \E c \in Conns :
      /\ conn[c].url = Str(UrlWeatherV2)
      /\ ~conn[c].api.found
      /\ Len(conn[c].calls) = 1
      /\ conn[c].calls[1].hostname = <<"api.weather.com">>
      /\ conn[c].calls[1].path = <<"/v2", "?", "appid", "=", "mine">>
      /\ HeaderNames(conn[c].calls[1]) = {"User-Agent", "Accept"}

\* The tag the caller put in the descriptor, undefined when there is none.
TagSent(r) == Get(DescriptorOf(r.sent), "tag")

\* C26: the metadata of the success envelope of a request that carries a
\* tag has a tag equal to the one sent.
C26_TagEchoed ==
    \A c \in Conns :
      \A i \in 1..Len(conn[c].responses) :
        (/\ Handled(conn[c])
         /\ conn[c].responses[i].kind = "envelope"
         /\ TagSent(conn[c]).t # "undef")
          => conn[c].responses[i].tag = TagSent(conn[c])

\* The outbound call of a is in flight: made and not yet answered.
InFlight(a) == conn[a].pc = "forwarding"

\* C24: while the outbound call of one request is in flight the listener
\* is free for every other request: it accepts a new one, takes the answer
\* of that request's own upstream and writes the response to its caller.
C24_ListenerStaysFree ==
    \A a, b \in Callers :
      (a # b /\ Handled(conn[a]) /\ InFlight(a))
        => /\ (conn[b].pc = "idle" /\ served < MaxRequests)
                => ENABLED Accept(b, "POST", "/htmz-proxy", "valid",
                                  Stringify(DocStripe), FALSE)
           /\ conn[b].pc = "forwarding"
                => ENABLED UpstreamResponse(b, 200, "application/json", BodyUser)
           /\ conn[b].pc = "responding" => ENABLED UpstreamEnd(b)

\* Request B arrived after request A and has its answer while the call of
\* A is still in flight.
C24_Witness ==
    /\ Handled(conn["A"]) /\ InFlight("A")
    /\ Handled(conn["B"])
    /\ conn["B"].id > conn["A"].id
    /\ conn["B"].pc = "done"
    /\ Len(conn["B"].responses) = 1
    /\ conn["B"].responses[1].kind = "envelope"

\* C25: the success envelope a caller receives is that of its own request:
\* its id, the url it sent, and the answer of the upstream of that url.
C25_OwnEnvelope ==
    \A c \in Callers :
      \A i \in 1..Len(conn[c].responses) :
        (Handled(conn[c]) /\ conn[c].responses[i].kind = "envelope")
          => LET sent == DescriptorOf(conn[c].sent)
                 own == conn[c].responses[i]
             IN /\ own.requestId = conn[c].id
                /\ own.originalUrl = Get(sent, "url")
                /\ own.method = ToUpperCase(TokenOf(Get(sent, "method")))
                /\ BaseUrl(ParseURL(own.resolvedUrl))
                     = BaseUrl(ParseURL(Get(sent, "url")))
                /\ own.data =
                     DecodeBody(
                       IF ParseURL(Get(sent, "url")).hostname
                            = <<"api.github.com">>
                       THEN BodyUser ELSE <<"not json">>)

\* Two requests for different urls were in flight together; the later one
\* has its envelope while the upstream of the earlier one is still sending.
C25_Witness ==
    /\ Handled(conn["A"]) /\ conn["A"].pc = "responding"
    /\ conn["A"].url = Str(UrlGithub)
    /\ Handled(conn["B"]) /\ conn["B"].pc = "done"
    /\ conn["B"].id > conn["A"].id
    /\ conn["B"].url = Str(UrlStripe)
    /\ Len(conn["B"].responses) = 1
    /\ conn["B"].responses[1].kind = "envelope"
    /\ conn["B"].responses[1].originalUrl = Str(UrlStripe)
    /\ conn["B"].responses[1].data = Str(<<"not json">>)


\* The header of r is the hex form of the HMAC of the four descriptor
\* fields of its body, serialized in their fixed order.
CanonicalSignature(r) ==
    r.sig = Sig(HexEncode(Hmac(hmacSecret,
                               Stringify(Canonical(DescriptorOf(r.body))))))

\* C31: the signature the verifier expects is that of the fields url,
\* method, headers, body in that order: a request that carries it passes
\* verification whatever the key order of its body and whatever other
\* fields the body has.
C31_CanonicalSignatureExpected ==
    [][\A c \in Conns :
         (/\ EndStep(c)
          /\ IsProxy(conn[c])
          /\ DescriptorOf(conn[c].body).t = "obj"
          /\ CanonicalSignature(conn[c]))
           => /\ Ran(conn'[c], "verify")
              /\ ~RejectedWith(conn'[c], {401, 403},
                               "AUTHENTICATION_ERROR")]_vars

\* C31 for bodies that are the four fields in their order and nothing else.
C31_CanonicalBodyAccepted ==
    [][\A c \in Conns :
         (/\ EndStep(c)
          /\ IsProxy(conn[c])
          /\ DescriptorOf(conn[c].body).t = "obj"
          /\ Canonical(DescriptorOf(conn[c].body)) = DescriptorOf(conn[c].body)
          /\ CanonicalSignature(conn[c]))
           => /\ Ran(conn'[c], "verify")
              /\ ~RejectedWith(conn'[c], {401, 403},
                               "AUTHENTICATION_ERROR")]_vars

\* Started: startServer has run on the configuration file.
Started == proc # "loaded"

\* C32: no line of a configuration text aborts the parse: whatever the
\* text of an existing file, the server that was started on it runs.
C32_BadLineNeverAborts ==
    (Started /\ configFile.exists) => proc = "listening"

IsHeader(line) == line # <<>> /\ Head(line) = "["

\* C32 for texts without section headers.
C32_NoHeaderNeverAborts ==
    (/\ Started
     /\ configFile.exists
     /\ \A i \in 1..Len(configFile.content) :
          ~IsHeader(configFile.content[i]))
      => proc = "listening"

\* The four cases of the value of an assignment.
ClaimedValue(value) ==
    IF Len(value) >= 2 /\ Head(value) = Quote /\ value[Len(value)] = Quote
    THEN Str(SubSeq(value, 2, Len(value) - 1))
    ELSE IF value = <<"true">> THEN Bool(TRUE)
    ELSE IF value = <<"false">> THEN Bool(FALSE)
    ELSE IF Len(value) = 1 /\ value[1] \in NumericTokens
    THEN Num(NumberOf(value[1]))
    ELSE Str(value)

\* The value tokens of the last assignment line of a text; the text has one.
LastAssigned(content) ==
    LET at == {i \in 1..Len(content) : IndexOfToken(content[i], "=", 1) # 0}
        last == CHOOSE i \in at : \A j \in at : j <= i
    IN SubSeq(content[last], IndexOfToken(content[last], "=", 1) + 1,
              Len(content[last]))

\* A text of assignments and other lines, without section headers.
FlatText(content) ==
    /\ \A i \in 1..Len(content) : ~IsHeader(content[i])
    /\ \E i \in 1..Len(content) : IndexOfToken(content[i], "=", 1) # 0

\* C33: the value of a key of the loaded configuration is the value of its
\* last assignment, coerced by the four cases: quoted string, boolean,
\* number, and literal string for everything else, the empty value included.
C33_FourCases ==
    (proc = "listening" /\ FlatText(lastLoad.content))
      => Get(config, "b") = ClaimedValue(LastAssigned(lastLoad.content))

\* C33 for assignments with something after the '='.
C33_FourCasesNonEmpty ==
    (/\ proc = "listening"
     /\ FlatText(lastLoad.content)
     /\ LastAssigned(lastLoad.content) # <<>>)
      => Get(config, "b") = ClaimedValue(LastAssigned(lastLoad.content))

\* The 'end' callback of the upstream response fires on connection c.
EndOfUpstream(c) ==
    /\ conn[c].pc = "responding"
    /\ conn'[c].pc = "done"
    /\ ~conn'[c].upError

\* The answer the caller of r got.
Answer(r) == r.responses[Len(r.responses)]

\* C34: the envelope's data is decoded by the upstream content-type: a JSON
\* content-type gives the parsed value, any other content-type gives the body
\* text unchanged (a text/plain body 1 or true is relayed as a string).
C34_DecodedByContentType ==
    [][\A c \in Conns :
         EndOfUpstream(c)
           => LET r == conn[c]
                  data == Answer(conn'[c]).data
              IN /\ (r.upType = "application/json" /\ ParseJSON(r.upBody).ok)
                      => data = ParseJSON(r.upBody).v
                 /\ r.upType # "application/json" => data = Str(r.upBody)]_vars

\* C34, as the code has it: the body is parsed as JSON whenever it parses,
\* and is text otherwise, whatever the content-type says.
C34_DecodedByParse ==
    [][\A c \in Conns :
         EndOfUpstream(c)
           => Answer(conn'[c]).data = DecodeBody(conn[c].upBody)]_vars

\* C34: a text/plain body `true` reached the caller as the boolean.
C34_PlainTextParsed ==
    \E c \in Conns :
      /\ conn[c].pc = "done"
      /\ conn[c].upType = "text/plain"
      /\ conn[c].upBody = <<"true">>
      /\ Answer(conn[c]).kind = "envelope"
      /\ Answer(conn[c]).data.t = "bool"

\* C37: a complete upstream response is answered with HTTP 200 and the
\* success envelope whatever the upstream status is, the upstream status being
\* reported in metadata.external.status only; 502 is produced only by a
\* transport error of the outbound call.
C37_UpstreamStatusInMetadataOnly ==
    [][\A c \in Conns :
         /\ EndOfUpstream(c)
              => /\ Answer(conn'[c]).status = 200
                 /\ Answer(conn'[c]).kind = "envelope"
                 /\ Answer(conn'[c]).extStatus = conn[c].upStatus
         /\ (/\ Len(conn'[c].responses) > Len(conn[c].responses)
             /\ Answer(conn'[c]).status = 502)
              => /\ conn'[c].upError
                 /\ conn[c].pc \in {"forwarding", "responding"}]_vars

\* C37: an upstream 500 was answered with a 200 envelope.
C37_Witness ==
    \E c \in Conns :
      /\ conn[c].pc = "done"
      /\ ~conn[c].upError
      /\ conn[c].upStatus = 500
      /\ Answer(conn[c]).status = 200
      /\ Answer(conn[c]).kind = "envelope"
      /\ Answer(conn[c]).extStatus = 500

\* The outbound call of r was started and has neither completed nor failed.
OutboundPending(r) == r.pc \in {"forwarding", "responding", "stalled"}

\* C35: no outbound call remains in flight for a request whose inbound
\* connection has closed: a disconnect of the caller cancels the call.
C35_DisconnectCancels ==
    \A c \in Conns : conn[c].closed => ~OutboundPending(conn[c])

\* C35, as the code has it: the disconnect changes nothing, and the response
\* of the upstream is still received and answered afterwards.
C35_CallRunsToCompletion ==
    [][\A c \in Conns :
         (conn[c].closed /\ OutboundPending(conn[c]))
           => /\ conn'[c].closed
              /\ conn'[c].calls = conn[c].calls
              /\ conn'[c].pc \in {"forwarding", "responding", "stalled",
                                   "done"}]_vars

\* The request of r is for one of the four things the server routes.
Routed(r) ==
    \/ r.method = "OPTIONS"
    \/ r.method = "POST" /\ r.path = "/htmz-proxy"
    \/ r.method = "GET" /\ r.path = "/htmz-secret"
    \/ r.method = "GET" /\ r.path = "/htmz-vars"

\* The fixed body {"error": "Not found"} under status 404.
NotFound ==
    [NoResponse EXCEPT !.status = 404, !.kind = "notfound",
                       !.error = <<"Not found">>]

\* C36: every request whose method and path are not the POST proxy route, the
\* GET secret route, the GET vars route or OPTIONS is answered at once with
\* the fixed 404 body, and triggers no verification, no allow-list check and
\* no outbound call; the request counter does not move.
C36_UnknownRouteIs404 ==
    [][\A c \in Conns :
         (conn[c].pc = "idle" /\ conn'[c].pc # "idle" /\ ~Routed(conn'[c]))
           => /\ conn'[c].pc = "done"
              /\ conn'[c].responses = <<NotFound>>
              /\ conn'[c].calls = <<>>
              /\ \A i \in 1..Len(Stages) : ~Ran(conn'[c], Stages[i])
              /\ requestCounter' = requestCounter]_vars

\* C36: the proxy route under GET and the two file paths got the 404.
C36_Witness ==
    \E c \in Conns :
      /\ conn[c].responses = <<NotFound>>
      /\ \/ conn[c].method = "GET" /\ conn[c].path = "/htmz-proxy"
         \/ conn[c].method = "GET" /\ conn[c].path = "/htmz.toml"
         \/ conn[c].method = "GET" /\ conn[c].path = "/.htmz-secret"

\* The requests of the element that were started, have not ended and were
\* not aborted.
Pending(e) == {r \in e.requests : r.id \notin e.aborted}

\* C38: an element has at most one request in flight at any time.
C38_OneInFlight == Cardinality(Pending(elem)) <= 1

\* C38, without beforeunload: as long as no controller was aborted the
\* element has at most one request.
C38_OneInFlightUnlessAborted ==
    elem.aborted = {} => Cardinality(elem.requests) <= 1

\* C38, the part about the mark: while the element carries the in-flight
\* mark, no event of any trigger starts a request.
C38_MarkedIgnoresEvents ==
    [][elem.marked => elem'.started = elem.started]_vars

\* C38: two calls to the proxy of one element are on the wire together.
C38_TwoSent ==
    /\ [id |-> 2, phase |-> "sent"] \in elem.requests
    /\ [id |-> 3, phase |-> "sent"] \in elem.requests

\* C39: every request start is eventually followed by the removal of the
\* in-flight mark, also when the preparation of the request throws after the
\* mark was set.
C39_MarkRemoved == elem.marked ~> ~elem.marked

\* C39, the part that holds: the mark of a start whose preparation did not
\* throw is eventually removed.
C39_MarkRemovedUnlessThrown == (elem.marked /\ ~elem.threw) ~> ~elem.marked

\* C39: the mark is set, no request exists and none can start.
C39_MarkedForGood ==
    /\ elem.marked
    /\ elem.threw
    /\ elem.requests = {}

====
